---- MODULE Spec2Model ----
(***************************************************************************)
(* The fst store engine (FstStore::fstWrite, fstMeta, fstRead, ReadHeader, *)
(* SetKeyIndex) as a state machine.                                        *)
(*                                                                         *)
(* A buffer (metaDataBlock, chunkIndex) and the header part of the file    *)
(* are functions from the byte offset at which a field starts to the value *)
(* of that field.  XXH64 is modelled as collision free: the hash of a byte *)
(* range is the function from the relative offsets of the fields in that   *)
(* range to their values.  The column payloads written by the codecs are   *)
(* blocks that start at a byte offset and have a size in bytes.            *)
(***************************************************************************)
EXTENDS Integers, Sequences, FiniteSets, TLC

VARIABLES
  table,          \* the host dataset handed to fstWrite (IFstTable)
  heapFill,       \* what freshly allocated, not yet written memory holds
  pc,             \* position of the fstWrite call: "start", "columns", "done"
  colNr,          \* loop counter of the column loop of fstWrite
  metaDataBlock,  \* fstWrite's metadata buffer, NoBuffer when not allocated
  chunkIndex,     \* fstWrite's chunk index buffer, NoBuffer when not allocated
  myfile,         \* the output stream of fstWrite: [open, fail, pos, ops]
  file,           \* the file on disk: [exists, fields, blocks]
  writeResult,    \* "none" while running, then "ok" or the error of fstWrite
  tamper,         \* what happened to the file after fstWrite returned
  readCall,       \* the arguments of the last fstRead / fstMeta call
  readResult,     \* what the last fstRead / fstMeta call did, and in held the
                  \* scratch buffers it allocated and did not delete
  kiIn,           \* SetKeyIndex on its own: the arguments
  kiOut,          \* SetKeyIndex on its own: keyIndex after the call
  compression,    \* fdsWriteRealVec_v9 on its own: the compression setting
  realVec         \* fdsWriteRealVec_v9 on its own: how the call streamed the vector

vars == <<table, heapFill, pc, colNr, metaDataBlock, chunkIndex, myfile, file,
          writeResult, tamper, readCall, readResult, kiIn, kiOut,
          compression, realVec>>

writeVars == <<pc, colNr, metaDataBlock, chunkIndex, myfile, file, writeResult>>

-----------------------------------------------------------------------------
(* Bounds of the model *)

MaxCols == 2      \* columns of a table
MaxRows == 2      \* rows of a table
MaxCompression == 100 \* the compression settings: 0 .. MaxCompression
MaxTypeCode == 13 \* type codes a file of another engine can hold: 0 .. MaxTypeCode
MaxSelect == 2    \* names in a column selection

-----------------------------------------------------------------------------
(* Constants of the format *)

FST_VERSION          == 1
TABLE_META_SIZE      == 44
tableHeaderSize      == 44
CHUNKSET_HEADER_SIZE == 76
colNamesHeaderSize   == 24
CHUNK_INDEX_SIZE     == 96
DATA_INDEX_SIZE      == 24

\* enum FstColumnType
UNKNOWN   == 1
CHARACTER == 2
FACTOR    == 3
INT_32    == 4
DOUBLE_64 == 5
BOOL_2    == 6
INT_64    == 7
BYTE      == 8

\* enum FstColumnAttribute: the default attribute of every column type
NONE == 1
BaseAttribute(colType) ==
  CASE colType = CHARACTER -> 2
    [] colType = FACTOR    -> 3
    [] colType = INT_32    -> 5
    [] colType = DOUBLE_64 -> 10
    [] colType = BOOL_2    -> 15
    [] colType = INT_64    -> 16
    [] colType = BYTE      -> 18
    [] OTHER               -> NONE

NoBuffer     == [o \in {} |-> 0]
NoAnnotation == "<none>"

-----------------------------------------------------------------------------
(* XXH64 and raw memory *)

\* The integer fields of buf that start in [from, from + len)
FieldsIn(buf, from, len) == {o \in DOMAIN buf : from <= o /\ o < from + len}

\* XXH64(&buf[from], len, FST_HASH_SEED)
XXH64(buf, from, len) ==
  [r \in {o - from : o \in FieldsIn(buf, from, len)} |-> buf[r + from]]

\* What a hash field holds that was never written (or was damaged): 8 raw bytes
RawHash(g) == [r \in {-1} |-> g]

\* new char[size]: every field holds what the heap held
NewBuffer(intFields, hashFields, g) ==
  [o \in intFields \cup hashFields |-> IF o \in hashFields THEN RawHash(g) ELSE g]

Max(a, b) == IF a >= b THEN a ELSE b

-----------------------------------------------------------------------------
(* Layout of the metadata block and of the chunk index                      *)

KeyIndexHeaderSize(keyLength) == IF keyLength # 0 THEN 4 * (keyLength + 2) ELSE 0

ChunksetHeaderSize(nrOfCols) == CHUNKSET_HEADER_SIZE + 8 * nrOfCols

\* MetaDataSize without the column names header
MetaDataSize_WithoutColNames(nrOfCols, keyLength) ==
  tableHeaderSize + KeyIndexHeaderSize(keyLength) + ChunksetHeaderSize(nrOfCols)

MetaDataSize(nrOfCols, keyLength) ==
  tableHeaderSize + KeyIndexHeaderSize(keyLength) + ChunksetHeaderSize(nrOfCols)
    + colNamesHeaderSize

ChunkIndexSize(nrOfCols) == CHUNK_INDEX_SIZE + DATA_INDEX_SIZE + 8 * nrOfCols

\* Offsets of the fields of the table header, relative to its start
TableHeaderInts == {8, 12, 16, 24, 28, 32, 40}

\* Offsets of the fixed fields of a chunkset header after its hash
ChunksetFixedInts == {8, 12, 16, 24, 32, 40, 48, 56, 64, 72}

\* Offsets of the fields of a column names header after its hash
ColNamesInts == {8, 12, 16}

\* Offsets of the fields of the chunk index after its hash: version, flags,
\* free bytes, nrOfChunkSlots, three free shorts, chunkPos[4], chunkRows[4]
ChunkIndexInts ==
  {8, 12, 16, 24, 26, 28, 30} \cup {32 + 8 * i : i \in 0..3} \cup {64 + 8 * i : i \in 0..3}

\* Offsets of the fields of the data chunk header after its hash, relative to
\* the start of the chunk index buffer
DataChunkInts(nrOfCols) ==
  {104, 108, 112} \cup {120 + 8 * i : i \in 0..(nrOfCols - 1)}

\* The fields of fstWrite's metadata buffer
MetaHashFields(nrOfCols, keyLength) ==
  LET offset == tableHeaderSize + KeyIndexHeaderSize(keyLength)
  IN  {0, offset, offset + ChunksetHeaderSize(nrOfCols)}
        \cup (IF keyLength # 0 THEN {44} ELSE {})

MetaIntFields(nrOfCols, keyLength) ==
  LET offset == tableHeaderSize + KeyIndexHeaderSize(keyLength)
  IN  TableHeaderInts
        \cup {52 + 4 * i : i \in 0..(keyLength - 1)}
        \cup {offset + o : o \in ChunksetFixedInts}
        \cup {offset + 76 + 2 * i : i \in 0..(4 * nrOfCols - 1)}
        \cup {offset + ChunksetHeaderSize(nrOfCols) + o : o \in ColNamesInts}


-----------------------------------------------------------------------------
(* The output stream and the file                                           *)

NoFile == [exists |-> FALSE, fields |-> NoBuffer, blocks |-> NoBuffer]

EmptyFile == [exists |-> TRUE, fields |-> NoBuffer, blocks |-> NoBuffer]

\* A file something else has left at the path of the output
OldFile == [exists |-> TRUE, fields |-> [o \in {0} |-> 7], blocks |-> NoBuffer]

\* ops is the sequence of operations the stream has carried out, and the
\* failure of one ("fail"), in the order of the calls
ClosedStream == [open |-> FALSE, fail |-> FALSE, pos |-> 0, ops |-> <<>>]

StreamOp(op, pos, size) == [op |-> op, pos |-> pos, size |-> size]

\* The file with the size bytes at pos replaced by the fields of buf
FilePut(f, pos, buf, size) ==
  LET kept    == {o \in DOMAIN f.fields : o < pos \/ o >= pos + size}
      written == {pos + r : r \in DOMAIN buf}
  IN  [f EXCEPT !.fields = [o \in kept \cup written |->
                              IF o \in written THEN buf[o - pos] ELSE f.fields[o]]]

\* The file with a codec payload placed at pos
FilePutBlock(f, pos, block) ==
  LET kept == {o \in DOMAIN f.blocks : o # pos}
  IN  [f EXCEPT !.blocks = [o \in kept \cup {pos} |->
                              IF o = pos THEN block ELSE f.blocks[o]]]

\* myfile.write(buf, size): nothing is written once the stream has failed
StreamWrite(sf, buf, size) ==
  IF sf.s.fail THEN sf
  ELSE [s |-> [sf.s EXCEPT !.pos = @ + size,
                           !.ops = Append(@, StreamOp("write", sf.s.pos, size))],
        f |-> FilePut(sf.f, sf.s.pos, buf, size)]

\* a codec appending its payload to myfile
StreamWriteBlock(sf, block) ==
  IF sf.s.fail THEN sf
  ELSE [s |-> [sf.s EXCEPT !.pos = @ + block.size,
                           !.ops = Append(@, StreamOp("block", sf.s.pos, block.size))],
        f |-> FilePutBlock(sf.f, sf.s.pos, block)]

\* StreamSeek clearing the failure of the stream, as it clears eofbit
StreamSeek_ClearsFail(sf, pos) ==
  IF pos < 0
  THEN [sf EXCEPT !.s.fail = TRUE, !.s.ops = Append(@, StreamOp("fail", sf.s.pos, 0))]
  ELSE [sf EXCEPT !.s.pos = pos, !.s.fail = FALSE,
                  !.s.ops = Append(@, StreamOp("seek", pos, 0))]

\* myfile.seekp(pos): a seek to a negative offset fails the stream
StreamSeek(sf, pos) ==
  IF sf.s.fail THEN sf
  ELSE IF pos < 0
  THEN [sf EXCEPT !.s.fail = TRUE, !.s.ops = Append(@, StreamOp("fail", sf.s.pos, 0))]
  ELSE [sf EXCEPT !.s.pos = pos, !.s.ops = Append(@, StreamOp("seek", pos, 0))]

\* myfile.tellp()
StreamTell(s) == IF s.fail THEN -1 ELSE s.pos

\* myfile.close()
StreamClose(s) == [s EXCEPT !.open = FALSE, !.ops = Append(@, StreamOp("close", s.pos, 0))]

-----------------------------------------------------------------------------
(* The codecs (their sources are not part of the engine): a payload records *)
(* which codec wrote it, the elements and the annotation it was given.      *)

PayloadSize(nrOfElements) == 8 + 4 * nrOfElements

Payload(code, data, annotation) ==
  [codec |-> code, size |-> PayloadSize(Len(data)), data |-> data,
   annotation |-> annotation]

\* The elements of column c (0-based) of a table with nrOfRows rows
ColumnData(c, nrOfRows) == [r \in 1..nrOfRows |-> 10 * (c + 1) + r]

-----------------------------------------------------------------------------
(* fstWrite                                                                 *)

\* fstWriteInputError with the row check made first
fstWriteInputError_RowsFirst(nrOfCols, nrOfRows) ==
  IF nrOfRows = 0 THEN "NoData"
  ELSE IF nrOfCols = 0 THEN "EmptyTable"
  ELSE "none"

\* lines 220-223 and 328-332: the two input checks, in the order of the code
fstWriteInputError(nrOfCols, nrOfRows) ==
  IF nrOfCols = 0 THEN "EmptyTable"
  ELSE IF nrOfRows = 0 THEN "NoData"
  ELSE "none"

\* lines 290-299
SetTableHeader(buf, nrOfCols, keyLength) ==
  LET b == [o \in DOMAIN buf |->
              CASE o = 8  -> FST_VERSION
                [] o = 12 -> 0
                [] o = 16 -> 0
                [] o = 24 -> FST_VERSION
                [] o = 28 -> nrOfCols
                [] o = 32 -> 52 + 4 * keyLength
                [] o = 40 -> keyLength
                [] OTHER  -> buf[o]]
  IN  [b EXCEPT ![0] = XXH64(b, 8, tableHeaderSize - 8)]

\* lines 303-307: fstTable.GetKeyColumns(keyColPos) and the key index hash
SetKeyIndexHeader(buf, keyColPos) ==
  LET keyLength == Len(keyColPos)
      b == [o \in DOMAIN buf |->
              IF o >= 52 /\ o < 52 + 4 * keyLength /\ (o - 52) % 4 = 0
              THEN keyColPos[((o - 52) \div 4) + 1]
              ELSE buf[o]]
  IN  IF keyLength # 0
      THEN [b EXCEPT ![44] =
              XXH64(b, tableHeaderSize + 8, KeyIndexHeaderSize(keyLength) - 8)]
      ELSE buf

\* lines 309-320: the fixed fields of the chunkset header at offset
SetChunksetHeader(buf, offset, nrOfRows, nrOfCols) ==
  [o \in DOMAIN buf |->
     CASE o = offset + 8  -> FST_VERSION
       [] o = offset + 12 -> 0
       [] o = offset + 16 -> 0
       [] o = offset + 24 -> 0
       [] o = offset + 32 -> 0
       [] o = offset + 40 -> 0
       [] o = offset + 48 -> 0
       [] o = offset + 56 -> 0
       [] o = offset + 64 -> nrOfRows
       [] o = offset + 72 -> nrOfCols
       [] OTHER -> buf[o]]

\* lines 324-326: the fields of the column names header at offset
SetColNamesHeader(buf, offset) ==
  [o \in DOMAIN buf |->
     CASE o = offset + 8  -> FST_VERSION
       [] o = offset + 12 -> 0
       [] o = offset + 16 -> 0
       [] OTHER -> buf[o]]

\* line 334
SetColNamesHash(buf, offset) ==
  [buf EXCEPT ![offset] = XXH64(buf, offset + 8, colNamesHeaderSize - 8)]

\* SetChunkIndexHeader without the assignment of chunkRows[0]
SetChunkIndexHeader_NoChunkRows(buf, nrOfRows) ==
  [o \in DOMAIN buf |->
     CASE o = 8   -> FST_VERSION
       [] o = 12  -> 0
       [] o = 16  -> 0
       [] o = 24  -> 4
       [] o = 26  -> 0
       [] o = 28  -> 0
       [] o = 30  -> 0
       [] o = 104 -> FST_VERSION
       [] o = 108 -> 0
       [] o = 112 -> 0
       [] OTHER   -> buf[o]]

\* lines 383-394: the fields of the chunk index and of the data chunk header
\* that fstWrite sets before it writes the placeholder
SetChunkIndexHeader(buf, nrOfRows) ==
  [o \in DOMAIN buf |->
     CASE o = 8   -> FST_VERSION
       [] o = 12  -> 0
       [] o = 16  -> 0
       [] o = 24  -> 4
       [] o = 26  -> 0
       [] o = 28  -> 0
       [] o = 30  -> 0
       [] o = 64  -> nrOfRows
       [] o = 104 -> FST_VERSION
       [] o = 108 -> 0
       [] o = 112 -> 0
       [] OTHER   -> buf[o]]

\* lines 239-334: the metadata buffer as it is when the file is opened
InitialMetaData(t, g) ==
  LET nrOfCols  == t.nrOfCols
      keyLength == Len(t.keyColPos)
      offset    == tableHeaderSize + KeyIndexHeaderSize(keyLength)
      b0 == NewBuffer(MetaIntFields(nrOfCols, keyLength),
                      MetaHashFields(nrOfCols, keyLength), g)
      b1 == SetTableHeader(b0, nrOfCols, keyLength)
      b2 == SetKeyIndexHeader(b1, t.keyColPos)
      b3 == SetChunksetHeader(b2, offset, t.nrOfRows, nrOfCols)
      b4 == SetColNamesHeader(b3, offset + ChunksetHeaderSize(nrOfCols))
  IN  SetColNamesHash(b4, offset + ChunksetHeaderSize(nrOfCols))

\* lines 357-394: the chunk index buffer as it is when the placeholder is written
InitialChunkIndex(t, g) ==
  SetChunkIndexHeader(
    NewBuffer(ChunkIndexInts \cup DataChunkInts(t.nrOfCols), {0, 96}, g), t.nrOfRows)

\* WriteFails leaving the two buffers allocated
WriteFails_KeepsBuffers(error) ==
  /\ writeResult' = error
  /\ pc' = "done"
  /\ metaDataBlock' = metaDataBlock
  /\ chunkIndex' = chunkIndex
  /\ colNr' = colNr

WriteFails(error) ==
  /\ writeResult' = error
  /\ pc' = "done"
  /\ metaDataBlock' = NoBuffer
  /\ chunkIndex' = NoBuffer
  /\ colNr' = colNr

\* fstWrite_Begin opening the file before it looks at the number of rows
fstWrite_Begin_OpensFirst ==
  /\ pc = "start"
  /\ LET error == fstWriteInputError(table.nrOfCols, table.nrOfRows)
     IN  IF error # "none"
         THEN /\ WriteFails(error)
              /\ IF error = "NoData"
                 THEN /\ myfile' = StreamClose([open |-> TRUE, fail |-> FALSE,
                                                pos |-> 0, ops |-> <<>>])
                      /\ file' = EmptyFile
                 ELSE UNCHANGED <<myfile, file>>
         ELSE \E opens \in BOOLEAN :
                IF ~opens
                THEN /\ WriteFails("CannotOpenWrite")
                     /\ UNCHANGED <<myfile, file>>
                ELSE LET mdb == InitialMetaData(table, heapFill)
                         ci  == InitialChunkIndex(table, heapFill)
                         sf0 == [s |-> [open |-> TRUE, fail |-> FALSE, pos |-> 0, ops |-> <<>>],
                                 f |-> EmptyFile]
                         sf1 == StreamWrite(sf0, mdb,
                                  MetaDataSize(table.nrOfCols, Len(table.keyColPos)))
                         sf2 == StreamWriteBlock(sf1,
                                  Payload(6, table.colNames, NoAnnotation))
                         sf3 == StreamWrite(sf2, ci, ChunkIndexSize(table.nrOfCols))
                     IN  /\ metaDataBlock' = mdb
                         /\ chunkIndex' = ci
                         /\ myfile' = sf3.s
                         /\ file' = sf3.f
                         /\ pc' = "columns"
                         /\ colNr' = 0
                         /\ writeResult' = "none"
  /\ UNCHANGED <<table, heapFill, tamper, readCall, readResult, kiIn, kiOut,
                 compression, realVec>>

\* lines 217-398: from the call to the placeholder chunk index
fstWrite_Begin ==
  /\ pc = "start"
  /\ LET error == fstWriteInputError(table.nrOfCols, table.nrOfRows)
     IN  IF error # "none"
         THEN /\ WriteFails(error)
              /\ UNCHANGED <<myfile, file>>
         ELSE \E opens \in BOOLEAN :
                IF ~opens
                THEN /\ WriteFails("CannotOpenWrite")
                     /\ UNCHANGED <<myfile, file>>
                ELSE LET mdb == InitialMetaData(table, heapFill)
                         ci  == InitialChunkIndex(table, heapFill)
                         sf0 == [s |-> [open |-> TRUE, fail |-> FALSE, pos |-> 0, ops |-> <<>>],
                                 f |-> EmptyFile]
                         sf1 == StreamWrite(sf0, mdb,
                                  MetaDataSize(table.nrOfCols, Len(table.keyColPos)))
                         sf2 == StreamWriteBlock(sf1,
                                  Payload(6, table.colNames, NoAnnotation))
                         sf3 == StreamWrite(sf2, ci, ChunkIndexSize(table.nrOfCols))
                     IN  /\ metaDataBlock' = mdb
                         /\ chunkIndex' = ci
                         /\ myfile' = sf3.s
                         /\ file' = sf3.f
                         /\ pc' = "columns"
                         /\ colNr' = 0
                         /\ writeResult' = "none"
  /\ UNCHANGED <<table, heapFill, tamper, readCall, readResult, kiIn, kiOut,
                 compression, realVec>>


\* WriteColumnCodec storing the value of the enum as the type code
WriteColumnCodec_EnumAsCode(colType, data, annotation) ==
  CASE colType = CHARACTER -> [code |-> CHARACTER, block |-> Payload(6, data, NoAnnotation)]
    [] colType = FACTOR    -> [code |-> FACTOR,    block |-> Payload(7, data, annotation)]
    [] colType = INT_32    -> [code |-> INT_32,    block |-> Payload(8, data, annotation)]
    [] colType = DOUBLE_64 -> [code |-> DOUBLE_64, block |-> Payload(9, data, annotation)]
    [] colType = BOOL_2    -> [code |-> BOOL_2,    block |-> Payload(10, data, annotation)]
    [] colType = INT_64    -> [code |-> INT_64,    block |-> Payload(11, data, annotation)]
    [] colType = BYTE      -> [code |-> BYTE,      block |-> Payload(12, data, annotation)]
    [] OTHER               -> [code |-> 0,  block |-> Payload(0, <<>>, NoAnnotation)]

\* lines 416-482: the switch on the column type: the type code stored in
\* colTypes and the payload the codec of that type appends (code 0: default)
WriteColumnCodec(colType, data, annotation) ==
  CASE colType = CHARACTER -> [code |-> 6,  block |-> Payload(6, data, NoAnnotation)]
    [] colType = FACTOR    -> [code |-> 7,  block |-> Payload(7, data, annotation)]
    [] colType = INT_32    -> [code |-> 8,  block |-> Payload(8, data, annotation)]
    [] colType = DOUBLE_64 -> [code |-> 9,  block |-> Payload(9, data, annotation)]
    [] colType = BOOL_2    -> [code |-> 10, block |-> Payload(10, data, annotation)]
    [] colType = INT_64    -> [code |-> 11, block |-> Payload(11, data, annotation)]
    [] colType = BYTE      -> [code |-> 12, block |-> Payload(12, data, annotation)]
    [] OTHER               -> [code |-> 0,  block |-> Payload(0, <<>>, NoAnnotation)]

\* lines 404-414: positionData[colNr] and the per-column fields set before the switch
SetColumnMeta(buf, offset, nrOfCols, c, colType, colAttribute, scale) ==
  [buf EXCEPT ![offset + 76 + 4 * nrOfCols + 2 * c] = colType,
              ![offset + 76 + 2 * c]                = colAttribute,
              ![offset + 76 + 6 * nrOfCols + 2 * c] = scale]

\* lines 402-483: one pass of the column loop
fstWrite_Column ==
  /\ pc = "columns"
  /\ colNr < table.nrOfCols
  /\ LET nrOfCols == table.nrOfCols
         offset   == tableHeaderSize + KeyIndexHeaderSize(Len(table.keyColPos))
         colType  == table.colType[colNr + 1]
         ci       == [chunkIndex EXCEPT ![120 + 8 * colNr] = StreamTell(myfile)]
         mdb      == SetColumnMeta(metaDataBlock, offset, nrOfCols, colNr, colType,
                                   table.colAttribute[colNr + 1], table.colScale[colNr + 1])
         codec    == WriteColumnCodec(colType, ColumnData(colNr, table.nrOfRows),
                                      table.annotation[colNr + 1])
     IN  IF codec.code = 0
         THEN /\ WriteFails("UnknownType")
              /\ myfile' = StreamClose(myfile)
              /\ file' = file
         ELSE LET sf == StreamWriteBlock([s |-> myfile, f |-> file], codec.block)
              IN  /\ metaDataBlock' =
                       [mdb EXCEPT ![offset + 76 + 2 * nrOfCols + 2 * colNr] = codec.code]
                  /\ chunkIndex' = ci
                  /\ myfile' = sf.s
                  /\ file' = sf.f
                  /\ colNr' = colNr + 1
                  /\ UNCHANGED <<pc, writeResult>>
  /\ UNCHANGED <<table, heapFill, tamper, readCall, readResult, kiIn, kiOut,
                 compression, realVec>>

\* ChunkPos without the size of the data chunk header
ChunkPos_WithoutDataIndex(positionData0, nrOfCols) == positionData0 - 8 * nrOfCols

\* line 486
ChunkPos(positionData0, nrOfCols) == positionData0 - 8 * nrOfCols - DATA_INDEX_SIZE

\* ChunksetHash over the fixed part of the header only, the column arrays left out
ChunksetHash_FixedPartOnly(buf, nrOfCols, keyLength) ==
  XXH64(buf, tableHeaderSize + KeyIndexHeaderSize(keyLength) + 8,
        CHUNKSET_HEADER_SIZE - 8)

\* line 489: the chunkset hash, computed after the column loop
ChunksetHash(buf, nrOfCols, keyLength) ==
  XXH64(buf, tableHeaderSize + KeyIndexHeaderSize(keyLength) + 8,
        ChunksetHeaderSize(nrOfCols) - 8)

\* line 490
ChunkIndexHash(buf) == XXH64(buf, 8, CHUNK_INDEX_SIZE - 8)

\* line 495
ChunkDataHash(buf, nrOfCols) ==
  XXH64(buf, CHUNK_INDEX_SIZE + 8, ChunkIndexSize(nrOfCols) - (CHUNK_INDEX_SIZE + 8))

\* fstWrite_Finish rewriting the chunk index before the metadata
fstWrite_Finish_ChunkIndexFirst ==
  /\ pc = "columns"
  /\ colNr = table.nrOfCols
  /\ LET nrOfCols  == table.nrOfCols
         keyLength == Len(table.keyColPos)
         offset    == tableHeaderSize + KeyIndexHeaderSize(keyLength)
         ci1  == [chunkIndex EXCEPT ![32] = ChunkPos(chunkIndex[120], nrOfCols)]
         mdb1 == [metaDataBlock EXCEPT
                    ![offset] = ChunksetHash(metaDataBlock, nrOfCols, keyLength)]
         ci2  == [ci1 EXCEPT ![0] = ChunkIndexHash(ci1)]
         ci3  == [ci2 EXCEPT ![96] = ChunkDataHash(ci2, nrOfCols)]
         sf1  == StreamWrite(StreamSeek([s |-> myfile, f |-> file],
                                        ci3[32] - CHUNK_INDEX_SIZE), ci3,
                             ChunkIndexSize(nrOfCols))
         sf2  == StreamWrite(StreamSeek(sf1, 0), mdb1, MetaDataSize(nrOfCols, keyLength))
     IN  /\ file' = sf2.f
         /\ myfile' = StreamClose(sf2.s)
         /\ metaDataBlock' = NoBuffer
         /\ chunkIndex' = NoBuffer
         /\ writeResult' = IF sf2.s.fail THEN "WriteFailed" ELSE "ok"
         /\ pc' = "done"
         /\ colNr' = colNr
  /\ UNCHANGED <<table, heapFill, tamper, readCall, readResult, kiIn, kiOut,
                 compression, realVec>>

\* lines 485-513: the two seek-back writes, the cleanup and the status check
fstWrite_Finish ==
  /\ pc = "columns"
  /\ colNr = table.nrOfCols
  /\ LET nrOfCols  == table.nrOfCols
         keyLength == Len(table.keyColPos)
         offset    == tableHeaderSize + KeyIndexHeaderSize(keyLength)
         ci1  == [chunkIndex EXCEPT ![32] = ChunkPos(chunkIndex[120], nrOfCols)]
         mdb1 == [metaDataBlock EXCEPT
                    ![offset] = ChunksetHash(metaDataBlock, nrOfCols, keyLength)]
         ci2  == [ci1 EXCEPT ![0] = ChunkIndexHash(ci1)]
         sf1  == StreamWrite(StreamSeek([s |-> myfile, f |-> file], 0), mdb1,
                             MetaDataSize(nrOfCols, keyLength))
         ci3  == [ci2 EXCEPT ![96] = ChunkDataHash(ci2, nrOfCols)]
         sf2  == StreamWrite(StreamSeek(sf1, ci3[32] - CHUNK_INDEX_SIZE), ci3,
                             ChunkIndexSize(nrOfCols))
     IN  /\ file' = sf2.f
         /\ myfile' = StreamClose(sf2.s)
         /\ metaDataBlock' = NoBuffer
         /\ chunkIndex' = NoBuffer
         /\ writeResult' = IF sf2.s.fail THEN "WriteFailed" ELSE "ok"
         /\ pc' = "done"
         /\ colNr' = colNr
  /\ UNCHANGED <<table, heapFill, tamper, readCall, readResult, kiIn, kiOut,
                 compression, realVec>>

\* A write or seek on the output stream fails (disk full, device error): the
\* stream's failbit stays set for the rest of the call
StreamFails ==
  /\ pc = "columns"
  /\ myfile.open
  /\ ~myfile.fail
  /\ myfile' = [myfile EXCEPT !.fail = TRUE,
                             !.ops = Append(@, StreamOp("fail", myfile.pos, 0))]
  /\ UNCHANGED <<table, heapFill, pc, colNr, metaDataBlock, chunkIndex, file,
                 writeResult, tamper, readCall, readResult, kiIn, kiOut,
                 compression, realVec>>

-----------------------------------------------------------------------------
(* Reading: ReadHeader, SetKeyIndex, the codecs                             *)

\* myfile.read(buf, size) at pos: the fields of the file in [pos, pos + size),
\* at their offsets in the buffer
ReadBuffer(f, pos, size) ==
  [r \in {o - pos : o \in FieldsIn(f.fields, pos, size)} |-> f.fields[r + pos]]

\* An integer field of a buffer (0 where the file ended before it)
IntAt(buf, o) == IF o \in DOMAIN buf THEN buf[o] ELSE 0

\* A hash field of a buffer
HashAt(buf, o) == IF o \in DOMAIN buf THEN buf[o] ELSE RawHash(0)

\* ReadHeader without the check of the header hash
ReadHeader_NoHashCheck(f) ==
  LET tableMeta == ReadBuffer(f, 0, TABLE_META_SIZE)
  IN  [error     |-> IF 0 \notin DOMAIN tableMeta THEN "CannotOpenRead"
                     ELSE IF IntAt(tableMeta, 24) > FST_VERSION THEN "UpdateRequired"
                     ELSE "none",
       keyLength |-> IntAt(tableMeta, 40),
       nrOfCols  |-> IntAt(tableMeta, 28),
       version   |-> IntAt(tableMeta, 24)]

\* ReadHeader comparing the version before it checks the header hash
ReadHeader_VersionFirst(f) ==
  LET tableMeta == ReadBuffer(f, 0, TABLE_META_SIZE)
      hHash     == XXH64(tableMeta, 8, TABLE_META_SIZE - 8)
  IN  [error     |-> IF 0 \notin DOMAIN tableMeta THEN "CannotOpenRead"
                     ELSE IF IntAt(tableMeta, 24) > FST_VERSION THEN "UpdateRequired"
                     ELSE IF hHash # HashAt(tableMeta, 0) THEN "NonFstFile"
                     ELSE "none",
       keyLength |-> IntAt(tableMeta, 40),
       nrOfCols  |-> IntAt(tableMeta, 28),
       version   |-> IntAt(tableMeta, 24)]

\* lines 144-185
ReadHeader(f) ==
  LET tableMeta == ReadBuffer(f, 0, TABLE_META_SIZE)
      hHash     == XXH64(tableMeta, 8, TABLE_META_SIZE - 8)
      error     == IF 0 \notin DOMAIN tableMeta THEN "CannotOpenRead"
                   ELSE IF hHash # HashAt(tableMeta, 0) THEN "NonFstFile"
                   ELSE IF IntAt(tableMeta, 24) > FST_VERSION THEN "UpdateRequired"
                   ELSE "none"
  IN  [error     |-> error,
       keyLength |-> IntAt(tableMeta, 40),
       nrOfCols  |-> IntAt(tableMeta, 28),
       version   |-> IntAt(tableMeta, 24)]

\* lines 190-205: the loop of SetKeyIndex from key i on; keyColPos and colIndex
\* are the C arrays as sequences (element 0 of the array is element 1 here)
RECURSIVE SetKeyIndexLoop(_, _, _, _, _, _)
SetKeyIndexLoop(i, keyIndex, keyLength, nrOfSelect, keyColPos, colIndex) ==
  IF i >= keyLength THEN keyIndex
  ELSE LET found  == {c \in 0..(nrOfSelect - 1) : keyColPos[i + 1] = colIndex[c + 1]}
           colSel == IF found = {} THEN nrOfSelect
                     ELSE CHOOSE c \in found : \A d \in found : c <= d
       IN  IF colSel = nrOfSelect THEN keyIndex
           ELSE SetKeyIndexLoop(i + 1, Append(keyIndex, colSel), keyLength, nrOfSelect,
                                keyColPos, colIndex)

\* SetKeyIndex going on to the next key when a key is not selected
RECURSIVE SetKeyIndex_SkipMissingLoop(_, _, _, _, _, _)
SetKeyIndex_SkipMissingLoop(i, keyIndex, keyLength, nrOfSelect, keyColPos, colIndex) ==
  IF i >= keyLength THEN keyIndex
  ELSE LET found == {c \in 0..(nrOfSelect - 1) : keyColPos[i + 1] = colIndex[c + 1]}
       IN  SetKeyIndex_SkipMissingLoop(i + 1,
             IF found = {} THEN keyIndex
             ELSE Append(keyIndex, CHOOSE c \in found : \A d \in found : c <= d),
             keyLength, nrOfSelect, keyColPos, colIndex)

SetKeyIndex_SkipMissing(keyIndex, keyLength, nrOfSelect, keyColPos, colIndex) ==
  SetKeyIndex_SkipMissingLoop(0, keyIndex, keyLength, nrOfSelect, keyColPos, colIndex)

\* lines 188-206
SetKeyIndex(keyIndex, keyLength, nrOfSelect, keyColPos, colIndex) ==
  SetKeyIndexLoop(0, keyIndex, keyLength, nrOfSelect, keyColPos, colIndex)

\* A read codec asked for length elements from startRow (0-based) of the size
\* elements of the payload at blockPos: the elements and the annotation stored
ReadPayload(f, blockPos, startRow, length, size) ==
  IF blockPos \in DOMAIN f.blocks
  THEN [data       |-> SubSeq(f.blocks[blockPos].data, startRow + 1, startRow + length),
        annotation |-> f.blocks[blockPos].annotation]
  ELSE [data |-> <<>>, annotation |-> NoAnnotation]

\* fdsReadCharVec_v6 of the column names at colNamesOffset: the names, and the
\* file position the stream is left at
ReadColNames(f, colNamesOffset) ==
  IF colNamesOffset \in DOMAIN f.blocks
  THEN [names |-> f.blocks[colNamesOffset].data,
        pos   |-> colNamesOffset + f.blocks[colNamesOffset].size]
  ELSE [names |-> <<>>, pos |-> colNamesOffset]

-----------------------------------------------------------------------------
(* fstRead                                                                  *)

NullSelection == [null |-> TRUE, names |-> <<>>]

Selection(names) == [null |-> FALSE, names |-> names]

\* FindColumn going on after a match: the last column whose name is str1
FindColumn_LastMatch(str1, names, nrOfCols) ==
  LET equal == {c \in 0..(nrOfCols - 1) : c + 1 \in DOMAIN names /\ names[c + 1] = str1}
  IN  IF equal = {} THEN -1 ELSE CHOOSE c \in equal : \A d \in equal : d <= c

\* lines 798-806: the first column whose name is str1, -1 when there is none
FindColumn(str1, names, nrOfCols) ==
  LET equal == {c \in 0..(nrOfCols - 1) : c + 1 \in DOMAIN names /\ names[c + 1] = str1}
  IN  IF equal = {} THEN -1 ELSE CHOOSE c \in equal : \A d \in equal : c <= d

\* SelectColumns numbering the columns of the null selection from one
SelectColumns_OneBased(columnSelection, names, nrOfCols) ==
  IF columnSelection.null
  THEN [error |-> "none", colIndex |-> [i \in 1..nrOfCols |-> i]]
  ELSE LET sel == columnSelection.names
           idx == [i \in 1..Len(sel) |-> FindColumn(sel[i], names, nrOfCols)]
       IN  IF \E i \in 1..Len(sel) : idx[i] = -1
           THEN [error |-> "ColumnNotFound", colIndex |-> <<>>]
           ELSE [error |-> "none", colIndex |-> idx]

\* lines 775-821: colIndex, or ColumnNotFound
SelectColumns(columnSelection, names, nrOfCols) ==
  IF columnSelection.null
  THEN [error |-> "none", colIndex |-> [i \in 1..nrOfCols |-> i - 1]]
  ELSE LET sel == columnSelection.names
           idx == [i \in 1..Len(sel) |-> FindColumn(sel[i], names, nrOfCols)]
       IN  IF \E i \in 1..Len(sel) : idx[i] = -1
           THEN [error |-> "ColumnNotFound", colIndex |-> <<>>]
           ELSE [error |-> "none", colIndex |-> idx]

\* RowRange without the min of line 862
RowRange_NoClamp(startRow, endRow, nrOfRows) ==
  LET firstRow == startRow - 1
  IN  IF firstRow >= nrOfRows \/ firstRow < 0
      THEN [error    |-> IF firstRow < 0 THEN "NegativeRow" ELSE "RowOutOfRange",
            firstRow |-> firstRow, length |-> 0]
      ELSE IF endRow # -1
      THEN IF endRow <= firstRow
           THEN [error |-> "BadRange", firstRow |-> firstRow, length |-> 0]
           ELSE [error |-> "none", firstRow |-> firstRow, length |-> endRow - firstRow]
      ELSE [error |-> "none", firstRow |-> firstRow, length |-> nrOfRows - firstRow]

\* RowRange comparing endRow with startRow instead of with firstRow
RowRange_EndAfterStart(startRow, endRow, nrOfRows) ==
  LET firstRow == startRow - 1
  IN  IF firstRow >= nrOfRows \/ firstRow < 0
      THEN [error    |-> IF firstRow < 0 THEN "NegativeRow" ELSE "RowOutOfRange",
            firstRow |-> firstRow, length |-> 0]
      ELSE IF endRow # -1
      THEN IF endRow <= startRow
           THEN [error |-> "BadRange", firstRow |-> firstRow, length |-> 0]
           ELSE [error    |-> "none",
                 firstRow |-> firstRow,
                 length   |-> IF endRow - firstRow <= nrOfRows - firstRow
                              THEN endRow - firstRow ELSE nrOfRows - firstRow]
      ELSE [error |-> "none", firstRow |-> firstRow, length |-> nrOfRows - firstRow]

\* lines 824-863: firstRow and length, or the error of the row range
RowRange(startRow, endRow, nrOfRows) ==
  LET firstRow == startRow - 1
  IN  IF firstRow >= nrOfRows \/ firstRow < 0
      THEN [error    |-> IF firstRow < 0 THEN "NegativeRow" ELSE "RowOutOfRange",
            firstRow |-> firstRow, length |-> 0]
      ELSE IF endRow # -1
      THEN IF endRow <= firstRow
           THEN [error |-> "BadRange", firstRow |-> firstRow, length |-> 0]
           ELSE [error    |-> "none",
                 firstRow |-> firstRow,
                 length   |-> IF endRow - firstRow <= nrOfRows - firstRow
                              THEN endRow - firstRow ELSE nrOfRows - firstRow]
      ELSE [error |-> "none", firstRow |-> firstRow, length |-> nrOfRows - firstRow]

\* lines 885-957: the setter a type code leads to ("" for the default branch)
Setter(code) ==
  CASE code = 6  -> "SetStringColumn"
    [] code = 7  -> "SetFactorColumn"
    [] code = 8  -> "SetIntegerColumn"
    [] code = 9  -> "SetDoubleColumn"
    [] code = 10 -> "SetLogicalColumn"
    [] code = 11 -> "SetInt64Column"
    [] code = 12 -> "SetByteColumn"
    [] OTHER     -> ""

\* lines 885-957: whether the read codec of a type code returns the annotation
\* and the setter takes it (fdsReadIntVec_v8 and fdsReadRealVec_v9 only)
HandsAnnotation(code) == code = 8 \/ code = 9

\* ColumnCall reading from the top of the column whatever firstRow is
ColumnCall_FromTop(f, colSel, c, code, colAttribute, scale, firstRow, length, nrOfRows, pos) ==
  LET got == ReadPayload(f, pos, 0, length, nrOfRows)
  IN  [setter     |-> Setter(code),
       colSel     |-> colSel,
       column     |-> c,
       attribute  |-> colAttribute,
       scale      |-> scale,
       pos        |-> pos,
       firstRow   |-> 0,
       length     |-> length,
       size       |-> nrOfRows,
       data       |-> got.data,
       annotation |-> IF HandsAnnotation(code) THEN got.annotation ELSE NoAnnotation]

\* lines 882-957: what tableReader receives for selected column colSel
ColumnCall(f, colSel, c, code, colAttribute, scale, firstRow, length, nrOfRows, pos) ==
  LET got == ReadPayload(f, pos, firstRow, length, nrOfRows)
  IN  [setter     |-> Setter(code),
       colSel     |-> colSel,
       column     |-> c,
       attribute  |-> colAttribute,
       scale      |-> scale,
       pos        |-> pos,
       firstRow   |-> firstRow,
       length     |-> length,
       size       |-> nrOfRows,
       data       |-> got.data,
       annotation |-> IF HandsAnnotation(code) THEN got.annotation ELSE NoAnnotation]

ReadOutcome(error, initTable, setCalls, keyIndex, selectedCols) ==
  [op |-> "fstRead", error |-> error, initTable |-> initTable, setCalls |-> setCalls,
   keyIndex |-> keyIndex, selectedCols |-> selectedCols]

ReadFails(error) == ReadOutcome(error, <<>>, <<>>, <<>>, <<>>)

\* lines 865-983: from InitTable on, for a file whose headers were accepted
ReadColumns(f, meta, ci, kihs, nrOfCols, keyLength, names, colIndex, range) ==
  LET nrOfSelect == Len(colIndex)
      nrOfRows   == IntAt(ci, 64)
      init       == <<[nrOfSelect |-> nrOfSelect, length |-> range.length]>>
      TypeOf(c)  == IntAt(meta, kihs + 76 + 2 * nrOfCols + 2 * c)
      Bad(i)     == \/ colIndex[i] < 0
                    \/ colIndex[i] >= nrOfCols
                    \/ Setter(TypeOf(colIndex[i])) = ""
      bad        == {i \in 1..nrOfSelect : Bad(i)}
      stop       == IF bad = {} THEN nrOfSelect + 1
                    ELSE CHOOSE i \in bad : \A j \in bad : i <= j
      calls      == [i \in 1..(stop - 1) |->
                       ColumnCall(f, i - 1, colIndex[i], TypeOf(colIndex[i]),
                                  IntAt(meta, kihs + 76 + 2 * colIndex[i]),
                                  IntAt(meta, kihs + 76 + 6 * nrOfCols + 2 * colIndex[i]),
                                  range.firstRow, range.length, nrOfRows,
                                  IntAt(ci, 120 + 8 * colIndex[i]))]
      keyColPos  == [i \in 1..keyLength |-> IntAt(meta, 8 + 4 * (i - 1))]
  IN  IF stop <= nrOfSelect
      THEN ReadOutcome(IF colIndex[stop] < 0 \/ colIndex[stop] >= nrOfCols
                       THEN "ColumnOutOfRange" ELSE "UnknownType",
                       init, calls, <<>>, <<>>)
      ELSE ReadOutcome("none", init, calls,
                       SetKeyIndex(<<>>, keyLength, nrOfSelect, keyColPos, colIndex),
                       [i \in 1..nrOfSelect |-> names[colIndex[i] + 1]])

\* ReadBody resolving the row range before the column selection
ReadBody_RowRangeFirst(f, hdr, columnSelection, startRow, endRow) ==
  LET keyLength == hdr.keyLength
      nrOfCols  == hdr.nrOfCols
      kihs      == KeyIndexHeaderSize(keyLength)
      chs       == ChunksetHeaderSize(nrOfCols)
      metaSize  == kihs + chs + colNamesHeaderSize
      meta      == ReadBuffer(f, TABLE_META_SIZE, metaSize)
      offset    == kihs + chs
      colNames  == ReadColNames(f, metaSize + TABLE_META_SIZE)
      ciSize    == ChunkIndexSize(nrOfCols)
      ci        == ReadBuffer(f, colNames.pos, ciSize)
      select    == SelectColumns(columnSelection, colNames.names, nrOfCols)
      range     == RowRange(startRow, endRow, IntAt(ci, 64))
  IN  IF keyLength # 0 /\ HashAt(meta, 0) # XXH64(meta, 8, kihs - 8)
        THEN ReadFails("DamagedHeader")
      ELSE IF HashAt(meta, kihs) # XXH64(meta, kihs + 8, chs - 8)
        THEN ReadFails("DamagedHeader")
      ELSE IF HashAt(meta, offset) # XXH64(meta, offset + 8, colNamesHeaderSize - 8)
        THEN ReadFails("DamagedHeader")
      ELSE IF HashAt(ci, 0) # XXH64(ci, 8, CHUNK_INDEX_SIZE - 8)
        THEN ReadFails("DamagedChunkIndex")
      ELSE IF HashAt(ci, 96) #
                XXH64(ci, CHUNK_INDEX_SIZE + 8, ciSize - (CHUNK_INDEX_SIZE + 8))
        THEN ReadFails("DamagedChunkIndex")
      ELSE IF range.error # "none" THEN ReadFails(range.error)
      ELSE IF select.error # "none" THEN ReadFails(select.error)
      ELSE ReadColumns(f, meta, ci, kihs, nrOfCols, keyLength, colNames.names,
                       select.colIndex, range)

\* ReadBody resolving the row range from chunkRows[0] before it checks the
\* hashes of the chunk index
ReadBody_RowRangeBeforeChunkHash(f, hdr, columnSelection, startRow, endRow) ==
  LET keyLength == hdr.keyLength
      nrOfCols  == hdr.nrOfCols
      kihs      == KeyIndexHeaderSize(keyLength)
      chs       == ChunksetHeaderSize(nrOfCols)
      metaSize  == kihs + chs + colNamesHeaderSize
      meta      == ReadBuffer(f, TABLE_META_SIZE, metaSize)
      offset    == kihs + chs
      colNames  == ReadColNames(f, metaSize + TABLE_META_SIZE)
      ciSize    == ChunkIndexSize(nrOfCols)
      ci        == ReadBuffer(f, colNames.pos, ciSize)
      select    == SelectColumns(columnSelection, colNames.names, nrOfCols)
      range     == RowRange(startRow, endRow, IntAt(ci, 64))
  IN  IF keyLength # 0 /\ HashAt(meta, 0) # XXH64(meta, 8, kihs - 8)
        THEN ReadFails("DamagedHeader")
      ELSE IF HashAt(meta, kihs) # XXH64(meta, kihs + 8, chs - 8)
        THEN ReadFails("DamagedHeader")
      ELSE IF HashAt(meta, offset) # XXH64(meta, offset + 8, colNamesHeaderSize - 8)
        THEN ReadFails("DamagedHeader")
      ELSE IF range.error # "none" THEN ReadFails(range.error)
      ELSE IF HashAt(ci, 0) # XXH64(ci, 8, CHUNK_INDEX_SIZE - 8)
        THEN ReadFails("DamagedChunkIndex")
      ELSE IF HashAt(ci, 96) #
                XXH64(ci, CHUNK_INDEX_SIZE + 8, ciSize - (CHUNK_INDEX_SIZE + 8))
        THEN ReadFails("DamagedChunkIndex")
      ELSE IF select.error # "none" THEN ReadFails(select.error)
      ELSE ReadColumns(f, meta, ci, kihs, nrOfCols, keyLength, colNames.names,
                       select.colIndex, range)

\* lines 649-863: the checks of fstRead after ReadHeader, then the columns
ReadBody(f, hdr, columnSelection, startRow, endRow) ==
  LET keyLength == hdr.keyLength
      nrOfCols  == hdr.nrOfCols
      kihs      == KeyIndexHeaderSize(keyLength)
      chs       == ChunksetHeaderSize(nrOfCols)
      metaSize  == kihs + chs + colNamesHeaderSize
      meta      == ReadBuffer(f, TABLE_META_SIZE, metaSize)
      offset    == kihs + chs
      colNames  == ReadColNames(f, metaSize + TABLE_META_SIZE)
      ciSize    == ChunkIndexSize(nrOfCols)
      ci        == ReadBuffer(f, colNames.pos, ciSize)
      select    == SelectColumns(columnSelection, colNames.names, nrOfCols)
      range     == RowRange(startRow, endRow, IntAt(ci, 64))
  IN  IF keyLength # 0 /\ HashAt(meta, 0) # XXH64(meta, 8, kihs - 8)
        THEN ReadFails("DamagedHeader")
      ELSE IF HashAt(meta, kihs) # XXH64(meta, kihs + 8, chs - 8)
        THEN ReadFails("DamagedHeader")
      ELSE IF HashAt(meta, offset) # XXH64(meta, offset + 8, colNamesHeaderSize - 8)
        THEN ReadFails("DamagedHeader")
      ELSE IF HashAt(ci, 0) # XXH64(ci, 8, CHUNK_INDEX_SIZE - 8)
        THEN ReadFails("DamagedChunkIndex")
      ELSE IF HashAt(ci, 96) #
                XXH64(ci, CHUNK_INDEX_SIZE + 8, ciSize - (CHUNK_INDEX_SIZE + 8))
        THEN ReadFails("DamagedChunkIndex")
      ELSE IF select.error # "none" THEN ReadFails(select.error)
      ELSE IF range.error # "none" THEN ReadFails(range.error)
      ELSE ReadColumns(f, meta, ci, kihs, nrOfCols, keyLength, colNames.names,
                       select.colIndex, range)

\* lines 622-988: what a call of fstRead does to tableReader, keyIndex (passed
\* in empty) and selectedCols, and the error it throws
fstReadResult(f, columnSelection, startRow, endRow) ==
  IF ~f.exists THEN ReadFails("CannotOpenFile")
  ELSE LET hdr == ReadHeader(f)
       IN  IF hdr.error # "none" THEN ReadFails(hdr.error)
           ELSE ReadBody(f, hdr, columnSelection, startRow, endRow)

\* fstMeta without the check of the hash of the column names header
fstMetaResult_NoColNamesCheck(f) ==
  LET hdr       == ReadHeader(f)
      keyLength == hdr.keyLength
      nrOfCols  == hdr.nrOfCols
      kihs      == KeyIndexHeaderSize(keyLength)
      chs       == ChunksetHeaderSize(nrOfCols)
      metaSize  == kihs + chs + colNamesHeaderSize
      meta      == ReadBuffer(f, TABLE_META_SIZE, metaSize)
      offset    == kihs + chs
      error     ==
        IF ~f.exists THEN "CannotOpenFile"
        ELSE IF hdr.error # "none" THEN hdr.error
        ELSE IF keyLength # 0 /\ HashAt(meta, 0) # XXH64(meta, 8, kihs - 8)
          THEN "DamagedHeader"
        ELSE IF HashAt(meta, kihs) # XXH64(meta, kihs + 8, chs - 8)
          THEN "DamagedHeader"
        ELSE "none"
  IN  IF error # "none" THEN [op |-> "fstMeta", error |-> error]
      ELSE [op        |-> "fstMeta",
            error     |-> "none",
            version   |-> hdr.version,
            nrOfCols  |-> nrOfCols,
            keyLength |-> keyLength,
            nrOfRows  |-> IntAt(meta, kihs + 64),
            colTypes  |-> [i \in 1..nrOfCols |->
                             IntAt(meta, kihs + 76 + 2 * nrOfCols + 2 * (i - 1))],
            colNames  |-> ReadColNames(f, metaSize + TABLE_META_SIZE).names]

\* lines 517-619: what fstMeta leaves in the store, and the error it throws
fstMetaResult(f) ==
  LET hdr       == ReadHeader(f)
      keyLength == hdr.keyLength
      nrOfCols  == hdr.nrOfCols
      kihs      == KeyIndexHeaderSize(keyLength)
      chs       == ChunksetHeaderSize(nrOfCols)
      metaSize  == kihs + chs + colNamesHeaderSize
      meta      == ReadBuffer(f, TABLE_META_SIZE, metaSize)
      offset    == kihs + chs
      error     ==
        IF ~f.exists THEN "CannotOpenFile"
        ELSE IF hdr.error # "none" THEN hdr.error
        ELSE IF keyLength # 0 /\ HashAt(meta, 0) # XXH64(meta, 8, kihs - 8)
          THEN "DamagedHeader"
        ELSE IF HashAt(meta, kihs) # XXH64(meta, kihs + 8, chs - 8)
          THEN "DamagedHeader"
        ELSE IF HashAt(meta, offset) # XXH64(meta, offset + 8, colNamesHeaderSize - 8)
          THEN "DamagedHeader"
        ELSE "none"
  IN  IF error # "none" THEN [op |-> "fstMeta", error |-> error]
      ELSE [op        |-> "fstMeta",
            error     |-> "none",
            version   |-> hdr.version,
            nrOfCols  |-> nrOfCols,
            keyLength |-> keyLength,
            nrOfRows  |-> IntAt(meta, kihs + 64),
            colTypes  |-> [i \in 1..nrOfCols |->
                             IntAt(meta, kihs + 76 + 2 * nrOfCols + 2 * (i - 1))],
            colNames  |-> ReadColNames(f, metaSize + TABLE_META_SIZE).names]

\* The scratch buffers fstRead has allocated (new char[], new int[]) when it
\* leaves with error: lines 650, 720, 781 and 792
fstReadAllocated(error) ==
  CASE error \in {"CannotOpenFile", "CannotOpenRead", "NonFstFile", "UpdateRequired"} -> {}
    [] error = "DamagedHeader"     -> {"metaDataBlock"}
    [] error = "DamagedChunkIndex" -> {"metaDataBlock", "chunkIndex"}
    [] OTHER                       -> {"metaDataBlock", "chunkIndex", "colIndex"}

\* The scratch buffers fstRead deletes on the way out with error: lines 662,
\* 691, 707, 750-751, 762-763, 810-812, 830-832, 853-855, 873-875, 960-962, 985-987
fstReadDeleted(error) ==
  CASE error \in {"CannotOpenFile", "CannotOpenRead", "NonFstFile", "UpdateRequired"} -> {}
    [] error = "DamagedHeader"     -> {"metaDataBlock"}
    [] error = "DamagedChunkIndex" -> {"metaDataBlock", "chunkIndex"}
    [] OTHER                       -> {"metaDataBlock", "chunkIndex", "colIndex"}

\* The scratch buffer fstMeta has allocated when it leaves with error: line 545
fstMetaAllocated(error) ==
  IF error \in {"CannotOpenFile", "CannotOpenRead", "NonFstFile", "UpdateRequired"}
  THEN {} ELSE {"metaDataBlock"}

\* The scratch buffer fstMeta deletes on the way out with error: lines 557, 587
\* and 604; on success line 617 sets the pointer to nullptr, and deletes nothing
fstMetaDeleted(error) ==
  IF error = "DamagedHeader" THEN {"metaDataBlock"} ELSE {}

-----------------------------------------------------------------------------
(* The codec of DOUBLE_64 columns: double_v9.cpp                            *)

\* fdsWriteRealVec_v9 taking compression = 50 for a high compression
fdsWriteRealVec_v9_HalfIsHigh(compress) ==
  IF compress = 0
  THEN [streamer |-> "fdsStreamUncompressed_v2", streamCompressor |-> "nullptr",
        compressors |-> <<>>, ratio |-> 0]
  ELSE IF compress < 50
  THEN [streamer |-> "fdsStreamcompressed_v2", streamCompressor |-> "StreamLinearCompressor",
        compressors |-> <<[algo |-> "LZ4", level |-> 2 * compress]>>,
        ratio |-> 2 * compress]
  ELSE [streamer |-> "fdsStreamcompressed_v2", streamCompressor |-> "StreamCompositeCompressor",
        compressors |-> <<[algo |-> "LZ4", level |-> 100], [algo |-> "ZSTD", level |-> 20]>>,
        ratio |-> 2 * (compress - 50)]

\* double_v9.cpp lines 43-75: the streamer fdsWriteRealVec_v9 hands the vector
\* to, the stream compressor it builds, its compressors and its ratio parameter
fdsWriteRealVec_v9(compress) ==
  IF compress = 0
  THEN [streamer |-> "fdsStreamUncompressed_v2", streamCompressor |-> "nullptr",
        compressors |-> <<>>, ratio |-> 0]
  ELSE IF compress <= 50
  THEN [streamer |-> "fdsStreamcompressed_v2", streamCompressor |-> "StreamLinearCompressor",
        compressors |-> <<[algo |-> "LZ4", level |-> 2 * compress]>>,
        ratio |-> 2 * compress]
  ELSE [streamer |-> "fdsStreamcompressed_v2", streamCompressor |-> "StreamCompositeCompressor",
        compressors |-> <<[algo |-> "LZ4", level |-> 100], [algo |-> "ZSTD", level |-> 20]>>,
        ratio |-> 2 * (compress - 50)]

-----------------------------------------------------------------------------
(* The host tables                                                          *)

HeapFill == {0, 171}

Annotations == {"", "UTC"}

ColName(i) == <<"a", "b", "c", "d", "e">>[i]

\* The orders of key columns a table of n columns can have
KeySeqs(n) ==
  UNION {{k \in [1..m -> 0..(n - 1)] : \A i, j \in 1..m : i # j => k[i] # k[j]}
           : m \in 0..n}

\* No keys, or every column a key, the last column first
FewKeySeqs(n) == {<<>>, [i \in 1..n |-> n - i]}

\* The column types of a table of n columns: the eight values of FstColumnType
\* in enum order, starting anywhere
TypeSeqs(n) == {[i \in 1..n |-> ((t + i - 1) % 8) + 1] : t \in 0..7}

\* The tables of n columns and r rows with the given key orders, type
\* sequences and annotations (every column of a table has the same annotation)
TablesOf(n, r, keySeqs, typeSeqs, annotations) ==
  {[nrOfCols     |-> n,
    nrOfRows     |-> r,
    keyColPos    |-> k,
    colType      |-> ty,
    colAttribute |-> [i \in 1..n |-> BaseAttribute(ty[i])],
    colScale     |-> [i \in 1..n |-> 0],
    annotation   |-> [i \in 1..n |-> a],
    colNames     |-> [i \in 1..n |-> ColName(i)]]
     : k \in keySeqs, ty \in typeSeqs, a \in annotations}

NoCall == [op |-> "none"]

NoTamper == [damaged |-> -1, newer |-> FALSE, foreign |-> FALSE]

InitOn(tables, fills, files) ==
  /\ table \in tables
  /\ heapFill \in fills
  /\ pc = "start"
  /\ colNr = 0
  /\ metaDataBlock = NoBuffer
  /\ chunkIndex = NoBuffer
  /\ myfile = ClosedStream
  /\ file \in files
  /\ writeResult = "none"
  /\ tamper = NoTamper
  /\ readCall = NoCall
  /\ readResult = NoCall
  /\ kiIn = NoCall
  /\ kiOut = <<>>
  /\ compression = 0
  /\ realVec = NoCall

\* The state after construction when there is no file at the path yet
InitWith(tables, fills) == InitOn(tables, fills, {NoFile})

-----------------------------------------------------------------------------
(* What can happen to a file between a successful fstWrite and a read       *)

\* The offsets of the hash fields of the file fstWrite made of table
FileHashFields ==
  LET n == table.nrOfCols
      k == Len(table.keyColPos)
      offset == tableHeaderSize + KeyIndexHeaderSize(k)
      d == MetaDataSize(n, k) + PayloadSize(n)
  IN  {0, offset, offset + ChunksetHeaderSize(n), d, d + CHUNK_INDEX_SIZE}
        \cup (IF k # 0 THEN {44} ELSE {})

\* The file is one a newer engine wrote: FST_VERSION_MAX is a later version and
\* the table header hash covers it
NewerWriter ==
  /\ pc = "done"
  /\ writeResult = "ok"
  /\ tamper = NoTamper
  /\ LET b == [file.fields EXCEPT ![24] = FST_VERSION + 1]
     IN  file' = [file EXCEPT !.fields = [b EXCEPT ![0] = XXH64(b, 8, TABLE_META_SIZE - 8)]]
  /\ tamper' = [tamper EXCEPT !.newer = TRUE]
  /\ readCall' = NoCall
  /\ readResult' = NoCall
  /\ UNCHANGED <<table, heapFill, pc, colNr, metaDataBlock, chunkIndex, myfile,
                 writeResult, kiIn, kiOut,
                 compression, realVec>>

\* The file is one another engine wrote: column c has a type code this engine
\* does not know, and the chunkset hash covers it
ForeignType(c, code) ==
  /\ pc = "done"
  /\ writeResult = "ok"
  /\ tamper.damaged = -1
  /\ ~tamper.foreign
  /\ c < table.nrOfCols
  /\ LET n == table.nrOfCols
         offset == tableHeaderSize + KeyIndexHeaderSize(Len(table.keyColPos))
         b == [file.fields EXCEPT ![offset + 76 + 2 * n + 2 * c] = code]
     IN  file' = [file EXCEPT !.fields =
                    [b EXCEPT ![offset] = XXH64(b, offset + 8, ChunksetHeaderSize(n) - 8)]]
  /\ tamper' = [tamper EXCEPT !.foreign = TRUE]
  /\ readCall' = NoCall
  /\ readResult' = NoCall
  /\ UNCHANGED <<table, heapFill, pc, colNr, metaDataBlock, chunkIndex, myfile,
                 writeResult, kiIn, kiOut,
                 compression, realVec>>

\* One field of a header record of the file changes (a flipped byte)
Damage(o) ==
  /\ pc = "done"
  /\ writeResult = "ok"
  /\ tamper.damaged = -1
  /\ o \in DOMAIN file.fields
  /\ file' = [file EXCEPT !.fields[o] =
                IF o \in FileHashFields THEN RawHash(-1) ELSE file.fields[o] + 1]
  /\ tamper' = [tamper EXCEPT !.damaged = o]
  /\ readCall' = NoCall
  /\ readResult' = NoCall
  /\ UNCHANGED <<table, heapFill, pc, colNr, metaDataBlock, chunkIndex, myfile,
                 writeResult, kiIn, kiOut,
                 compression, realVec>>

-----------------------------------------------------------------------------
(* The calls of fstRead and fstMeta                                         *)

\* A call of fstRead on a fresh store (one call in a behaviour: a call changes
\* neither the file nor what a later call does)
fstRead(columnSelection, startRow, endRow) ==
  /\ pc = "done"
  /\ readCall = NoCall
  /\ readCall' = [op |-> "fstRead", columnSelection |-> columnSelection,
                  startRow |-> startRow, endRow |-> endRow]
  /\ LET result == fstReadResult(file, columnSelection, startRow, endRow)
     IN  readResult' = result @@
           [held |-> fstReadAllocated(result.error) \ fstReadDeleted(result.error)]
  /\ UNCHANGED <<table, heapFill, pc, colNr, metaDataBlock, chunkIndex, myfile, file,
                 writeResult, tamper, kiIn, kiOut,
                 compression, realVec>>

\* A call of fstMeta on a fresh store
fstMeta ==
  /\ pc = "done"
  /\ readCall = NoCall
  /\ readCall' = [op |-> "fstMeta"]
  /\ LET result == fstMetaResult(file)
     IN  readResult' = result @@
           [held |-> fstMetaAllocated(result.error) \ fstMetaDeleted(result.error)]
  /\ UNCHANGED <<table, heapFill, pc, colNr, metaDataBlock, chunkIndex, myfile, file,
                 writeResult, tamper, kiIn, kiOut,
                 compression, realVec>>

SelNames == {"a", "b", "zz"}

\* No selection, or up to maxLen names
Selections(maxLen) ==
  {NullSelection} \cup
    UNION {{Selection(sel) : sel \in [1..m -> SelNames]} : m \in 0..maxLen}

-----------------------------------------------------------------------------
(* The specifications                                                       *)

\* fstWrite on its own
InitWrite ==
  \E n \in 0..MaxCols, r \in 0..MaxRows :
    InitWith(TablesOf(n, r, KeySeqs(n), TypeSeqs(n), Annotations), HeapFill)

NextWrite == fstWrite_Begin \/ fstWrite_Column \/ fstWrite_Finish \/ StreamFails

SpecWrite == InitWrite /\ [][NextWrite]_vars

\* fstWrite to a path where there is no file, or a file of something else
InitOverwrite ==
  \E n \in 0..MaxCols, r \in 0..MaxRows :
    InitOn(TablesOf(n, r, FewKeySeqs(n), TypeSeqs(n), {"UTC"}), HeapFill,
           {NoFile, OldFile})

SpecOverwrite == InitOverwrite /\ [][NextWrite]_vars

\* fstWrite, then fstRead and fstMeta of the file as written
InitRead ==
  \E n \in 0..MaxCols, r \in 0..MaxRows :
    InitWith(TablesOf(n, r, FewKeySeqs(n), TypeSeqs(n), {"UTC"}), {171})

NextRead ==
  \/ fstWrite_Begin
  \/ fstWrite_Column
  \/ fstWrite_Finish
  \/ StreamFails
  \/ \E sel \in Selections(MaxSelect), startRow \in 0..(MaxRows + 1),
        endRow \in -1..(MaxRows + 1) : writeResult = "ok" /\ fstRead(sel, startRow, endRow)
  \/ fstMeta

SpecRead == InitRead /\ [][NextRead]_vars

\* fstWrite of a one-row table of INT_32 columns whose names are any names of
\* SelNames, the same name more than once included, then fstRead of all rows
\* with any selection
NamedTables(n) ==
  {[t EXCEPT !.colNames = names] :
     t \in TablesOf(n, 1, {<<>>}, {[i \in 1..n |-> INT_32]}, {""}),
     names \in [1..n -> SelNames]}

InitSelect == \E n \in 0..MaxCols : InitWith(NamedTables(n), {171})

NextSelect ==
  \/ fstWrite_Begin
  \/ fstWrite_Column
  \/ fstWrite_Finish
  \/ \E sel \in Selections(MaxSelect) : fstRead(sel, 1, -1)

SpecSelect == InitSelect /\ [][NextSelect]_vars

\* fstWrite of a one-row table of every sequence of types, then a file in
\* which a column has any type code from 0 to MaxTypeCode, then fstRead of
\* all columns
InitType ==
  \E n \in 0..MaxCols : InitWith(TablesOf(n, 1, {<<>>}, TypeSeqs(n), {""}), {171})

NextType ==
  \/ fstWrite_Begin
  \/ fstWrite_Column
  \/ fstWrite_Finish
  \/ \E c \in 0..(MaxCols - 1), code \in 0..MaxTypeCode : ForeignType(c, code)
  \/ fstRead(NullSelection, 1, -1)

SpecType == InitType /\ [][NextType]_vars

\* SetKeyIndex on its own, on every key order and selection over MaxCols + 1 columns,
\* and fdsWriteRealVec_v9 on its own
IdleTable ==
  [nrOfCols |-> 0, nrOfRows |-> 0, keyColPos |-> <<>>, colType |-> <<>>,
   colAttribute |-> <<>>, colScale |-> <<>>, annotation |-> <<>>, colNames |-> <<>>]

InitKey ==
  /\ table = IdleTable
  /\ heapFill = 0
  /\ pc = "done"
  /\ colNr = 0
  /\ metaDataBlock = NoBuffer
  /\ chunkIndex = NoBuffer
  /\ myfile = ClosedStream
  /\ file = NoFile
  /\ writeResult = "none"
  /\ tamper = NoTamper
  /\ readCall = [op |-> "SetKeyIndex"]
  /\ readResult = NoCall
  /\ \E kl \in 0..MaxCols, ns \in 0..(MaxSelect + 1) :
       kiIn \in [op : {"args"}, keyColPos : [1..kl -> 0..MaxCols],
                 colIndex : [1..ns -> 0..MaxCols]]
  /\ kiOut = <<>>
  /\ compression = 0
  /\ realVec = NoCall

SetKeyIndexCall ==
  /\ kiIn.op = "args"
  /\ kiIn' = [kiIn EXCEPT !.op = "called"]
  /\ kiOut' = SetKeyIndex(<<>>, Len(kiIn.keyColPos), Len(kiIn.colIndex),
                          kiIn.keyColPos, kiIn.colIndex)
  /\ UNCHANGED <<table, heapFill, pc, colNr, metaDataBlock, chunkIndex, myfile, file,
                 writeResult, tamper, readCall, readResult, compression, realVec>>

NextKey == SetKeyIndexCall

SpecKey == InitKey /\ [][NextKey]_vars

\* fdsWriteRealVec_v9 on its own, with every compression setting up to MaxCompression
InitDouble ==
  /\ table = IdleTable
  /\ heapFill = 0
  /\ pc = "done"
  /\ colNr = 0
  /\ metaDataBlock = NoBuffer
  /\ chunkIndex = NoBuffer
  /\ myfile = ClosedStream
  /\ file = NoFile
  /\ writeResult = "none"
  /\ tamper = NoTamper
  /\ readCall = [op |-> "fdsWriteRealVec_v9"]
  /\ readResult = NoCall
  /\ kiIn = NoCall
  /\ kiOut = <<>>
  /\ compression \in 0..MaxCompression
  /\ realVec = NoCall

WriteRealVec ==
  /\ realVec = NoCall
  /\ readCall.op = "fdsWriteRealVec_v9"
  /\ realVec' = fdsWriteRealVec_v9(compression)
  /\ UNCHANGED <<table, heapFill, pc, colNr, metaDataBlock, chunkIndex, myfile, file,
                 writeResult, tamper, readCall, readResult, kiIn, kiOut, compression>>

NextDouble == WriteRealVec

SpecDouble == InitDouble /\ [][NextDouble]_vars

\* fstWrite, then what can happen to the file, then fstRead and fstMeta
Init ==
  \E n \in 0..MaxCols, r \in {0, MaxRows} :
    InitWith(TablesOf(n, r, FewKeySeqs(n), {[i \in 1..n |-> ((2 + i) % 8) + 1],
                                            [i \in 1..n |-> ((8 - n + i) % 8) + 1]},
                      {"UTC"}), {171})

Next ==
  \/ fstWrite_Begin
  \/ fstWrite_Column
  \/ fstWrite_Finish
  \/ StreamFails
  \/ NewerWriter
  \/ \E c \in 0..(MaxCols - 1), code \in {5, 13} : ForeignType(c, code)
  \/ \E o \in DOMAIN file.fields : Damage(o)
  \/ \E sel \in Selections(1), startRow \in {0, 1, MaxRows + 1},
        endRow \in {-1, 0, 1} :
       fstRead(sel, startRow, endRow)
  \/ fstMeta

Spec == Init /\ [][Next]_vars

-----------------------------------------------------------------------------
(* The records of a file as the format lays them out (fststore.cpp 61-120)  *)

\* The hash field at start equals the hash of the rest of its record
HashFieldOK(fields, start, size) ==
  /\ start \in DOMAIN fields
  /\ fields[start] = XXH64(fields, start + 8, size - 8)

\* Where the chunkset header of a file with keyLength keys starts
ChunksetAt(keyLength) == 44 + (IF keyLength > 0 THEN 8 + 4 * keyLength ELSE 0)

\* Where the column names header starts
ColNamesAt(nrOfCols, keyLength) == ChunksetAt(keyLength) + 76 + 8 * nrOfCols

\* Where the chunk index starts: after the payload of the column names
ChunkIndexAt(f, nrOfCols, keyLength) ==
  LET namesAt == ColNamesAt(nrOfCols, keyLength) + 24
  IN  IF namesAt \in DOMAIN f.blocks THEN namesAt + f.blocks[namesAt].size ELSE -1

-----------------------------------------------------------------------------
(* Claims about fstWrite                                                    *)

\* C1: after a successful fstWrite every hash field of the final file (table
\* header, key index header when keyLength > 0, chunkset header, column names
\* header, chunk index, data chunk header) equals the hash of the bytes that
\* follow it within its record as they stand in the final file.
C1_HashesCoverFinalFile ==
  writeResult = "ok" =>
    LET n == table.nrOfCols
        k == Len(table.keyColPos)
        d == ChunkIndexAt(file, n, k)
    IN  /\ HashFieldOK(file.fields, 0, 44)
        /\ k > 0 => HashFieldOK(file.fields, 44, 8 + 4 * k)
        /\ HashFieldOK(file.fields, ChunksetAt(k), 76 + 8 * n)
        /\ HashFieldOK(file.fields, ColNamesAt(n, k), 24)
        /\ HashFieldOK(file.fields, d, 96)
        /\ HashFieldOK(file.fields, d + 96, 24 + 8 * n)

\* A successful write of a keyed table of two or more columns
C1_Witness ==
  /\ writeResult = "ok"
  /\ table.nrOfCols >= 2
  /\ Len(table.keyColPos) > 0

\* C10: fstWrite fails with EmptyTable when nrOfCols = 0 (also when nrOfRows = 0
\* as well) and with NoData when nrOfCols >= 1 and nrOfRows = 0.
C10_EmptyInputRejected ==
  pc = "done" =>
    /\ table.nrOfCols = 0 => writeResult = "EmptyTable"
    /\ table.nrOfCols >= 1 /\ table.nrOfRows = 0 => writeResult = "NoData"

\* fstWrite has returned for a table with neither columns nor rows
C10_Witness ==
  /\ pc = "done"
  /\ table.nrOfCols = 0
  /\ table.nrOfRows = 0
  /\ writeResult = "EmptyTable"

\* The size of the whole metadata (table header to column names header) and of
\* the whole chunk index with the data chunk header, from the layout of the file
MetaDataBytes == ColNamesAt(table.nrOfCols, Len(table.keyColPos)) + 24

ChunkIndexBytes == 96 + 24 + 8 * table.nrOfCols

\* Where fstWrite appended the placeholder of the chunk index: its third
\* operation on the output stream
PlaceholderAt == myfile.ops[3].pos

\* C13: the operations of the output stream of a successful fstWrite are the
\* appends, each starting where the one before ended (the metadata at 0, the
\* column names, the chunk index, the payloads of the columns 0 ..
\* nrOfCols - 1 in this order), then exactly two seeks, one to 0 followed by
\* a write of the whole metadata and one to chunkPos - CHUNK_INDEX_SIZE
\* followed by a write of the whole chunk index, and the close; the two
\* rewrites cover the two placeholders and nothing else.
C13_SequentialThenTwoSeekBacks ==
  writeResult = "ok" =>
    LET ops == myfile.ops
        n   == table.nrOfCols
        back == SubSeq(ops, n + 4, Len(ops) - 1)
    IN  /\ Len(ops) = n + 8
        /\ ops[1] = StreamOp("write", 0, MetaDataBytes)
        /\ ops[2].op = "block"
        /\ file.blocks[ops[2].pos].data = table.colNames
        /\ ops[3].op = "write" /\ ops[3].size = ChunkIndexBytes
        /\ \A c \in 0..(n - 1) :
             /\ ops[4 + c].op = "block"
             /\ file.blocks[ops[4 + c].pos].data = ColumnData(c, table.nrOfRows)
        /\ \A i \in 2..(n + 3) : ops[i].pos = ops[i - 1].pos + ops[i - 1].size
        /\ {i \in 1..Len(ops) : ops[i].op = "seek"} \subseteq {n + 4, n + 5, n + 6}
        /\ Cardinality({i \in 1..Len(ops) : ops[i].op = "seek"}) = 2
        /\ {back[i] : i \in 1..4} =
             {StreamOp("seek", 0, 0), StreamOp("write", 0, MetaDataBytes),
              StreamOp("seek", file.fields[PlaceholderAt + 32] - CHUNK_INDEX_SIZE, 0),
              StreamOp("write", PlaceholderAt, ChunkIndexBytes)}
        /\ \A i \in 1..3 : back[i].op = "seek" => back[i + 1].pos = back[i].pos
        /\ ops[n + 8].op = "close"

\* fstWrite has written a keyed table of two or more columns: its stream
\* appended, sought twice and was closed
C13_Witness ==
  /\ writeResult = "ok"
  /\ table.nrOfCols >= 2
  /\ Len(table.keyColPos) > 0
  /\ Cardinality({i \in 1..Len(myfile.ops) : myfile.ops[i].op = "seek"}) = 2
  /\ myfile.ops[Len(myfile.ops)].op = "close"

\* C14 as stated: a successful fstWrite rewrites the chunk index at chunkPos -
\* CHUNK_INDEX_SIZE before it rewrites the metadata at 0, and closes the file
\* after both.
C14_ChunkIndexRewrittenFirst ==
  writeResult = "ok" =>
    \E i, j \in 1..Len(myfile.ops) :
      /\ i < j
      /\ myfile.ops[i] = StreamOp("seek", PlaceholderAt, 0)
      /\ myfile.ops[i + 1] = StreamOp("write", PlaceholderAt, ChunkIndexBytes)
      /\ myfile.ops[j] = StreamOp("seek", 0, 0)
      /\ myfile.ops[j + 1] = StreamOp("write", 0, MetaDataBytes)
      /\ j + 1 < Len(myfile.ops)
      /\ myfile.ops[Len(myfile.ops)].op = "close"

\* C14: a successful fstWrite rewrites the metadata at 0 before it rewrites
\* the chunk index at chunkPos - CHUNK_INDEX_SIZE, and closes the file after
\* both; nothing is done on the stream after the close.
C14_MetadataRewrittenFirst ==
  /\ \A i \in 1..(Len(myfile.ops) - 1) : myfile.ops[i].op # "close"
  /\ writeResult = "ok" =>
       \E i, j \in 1..Len(myfile.ops) :
         /\ i < j
         /\ myfile.ops[i] = StreamOp("seek", 0, 0)
         /\ myfile.ops[i + 1] = StreamOp("write", 0, MetaDataBytes)
         /\ myfile.ops[j] = StreamOp("seek", PlaceholderAt, 0)
         /\ myfile.ops[j + 1] = StreamOp("write", PlaceholderAt, ChunkIndexBytes)
         /\ j + 1 < Len(myfile.ops)
         /\ myfile.ops[Len(myfile.ops)].op = "close"
         /\ ~myfile.open

\* fstWrite has returned after the rewrite of the chunk index, its last write
C14_Witness ==
  /\ writeResult = "ok"
  /\ ~myfile.open
  /\ myfile.ops[Len(myfile.ops) - 1] = StreamOp("write", PlaceholderAt, ChunkIndexBytes)
  /\ myfile.ops[Len(myfile.ops) - 3] = StreamOp("write", 0, MetaDataBytes)

\* C15: in a successful fstWrite the offset chunkPos - CHUNK_INDEX_SIZE of the
\* second seek, with chunkPos = positionData[0] - 8 * nrOfCols -
\* DATA_INDEX_SIZE, is the offset at which the placeholder of the chunk index
\* was appended, and the rewrite ends at positionData[0], where the payload
\* of column 0 starts.
C15_SeekBackReachesPlaceholder ==
  writeResult = "ok" =>
    LET n == table.nrOfCols
        positionData0 == myfile.ops[4].pos
        chunkPos == positionData0 - 8 * n - 24
    IN  /\ chunkPos - 96 = PlaceholderAt
        /\ PlaceholderAt = ChunkIndexAt(file, n, Len(table.keyColPos))
        /\ file.fields[PlaceholderAt + 32] = chunkPos
        /\ file.fields[PlaceholderAt + 120] = positionData0
        /\ \E i \in 1..(Len(myfile.ops) - 1) :
             /\ myfile.ops[i] = StreamOp("seek", PlaceholderAt, 0)
             /\ myfile.ops[i + 1] = StreamOp("write", PlaceholderAt, ChunkIndexBytes)
             /\ myfile.ops[i + 1].pos + myfile.ops[i + 1].size = positionData0

\* fstWrite has written a table of two columns with a key: the column names
\* and the key index are of their longest
C15_Witness ==
  /\ writeResult = "ok"
  /\ table.nrOfCols = Len(table.keyColPos)
  /\ table.nrOfCols >= 2
  /\ file.fields[PlaceholderAt + 32] = PlaceholderAt + 96

\* C16: in the file of a successful fstWrite the chunk index has
\* nrOfChunkSlots = 4, slot 0 holds chunkPos and nrOfRows, and chunkPos[1..3]
\* and chunkRows[1..3] are zero, whatever the memory of the chunk index
\* buffer held when it was allocated.
C16_UnusedChunkSlotsAreZero ==
  writeResult = "ok" =>
    LET d == ChunkIndexAt(file, table.nrOfCols, Len(table.keyColPos))
    IN  /\ file.fields[d + 24] = 4
        /\ file.fields[d + 32] = d + 96
        /\ file.fields[d + 64] = table.nrOfRows
        /\ \A i \in 1..3 : file.fields[d + 32 + 8 * i] = 0
        /\ \A i \in 1..3 : file.fields[d + 64 + 8 * i] = 0

-----------------------------------------------------------------------------
(* Claims about fstRead and fstMeta                                         *)

\* The file is the one a successful fstWrite left, untouched since
WrittenFile == writeResult = "ok" /\ tamper = NoTamper

\* Every selected name is a column of the table (or there is no selection)
Resolvable(columnSelection) ==
  \/ columnSelection.null
  \/ \A i \in 1..Len(columnSelection.names) :
       \E c \in 1..table.nrOfCols : table.colNames[c] = columnSelection.names[i]

\* The number of columns a resolvable selection selects
NrOfSelect(columnSelection) ==
  IF columnSelection.null THEN table.nrOfCols ELSE Len(columnSelection.names)

\* C2: when one header field of a written file is damaged, so that the stored
\* hash of its record no longer matches, fstRead fails with NonFstFile for the
\* table header, with DamagedHeader for the key index header, the chunkset
\* header and the column names header, and with DamagedChunkIndex for the
\* chunk index and the data chunk header.
C2_HashMismatchErrors ==
  (/\ readCall.op = "fstRead"
   /\ writeResult = "ok"
   /\ tamper.damaged # -1
   /\ ~tamper.newer
   /\ ~tamper.foreign) =>
    LET n == table.nrOfCols
        k == Len(table.keyColPos)
        o == tamper.damaged
    IN  readResult.error =
          IF o < tableHeaderSize THEN "NonFstFile"
          ELSE IF o < ColNamesAt(n, k) + colNamesHeaderSize THEN "DamagedHeader"
          ELSE "DamagedChunkIndex"

\* fstRead has refused a file whose data chunk header is damaged
C2_Witness ==
  /\ readCall.op = "fstRead"
  /\ writeResult = "ok"
  /\ ~tamper.newer
  /\ ~tamper.foreign
  /\ tamper.damaged >=
       ChunkIndexAt(file, table.nrOfCols, Len(table.keyColPos)) + CHUNK_INDEX_SIZE
  /\ readResult.error = "DamagedChunkIndex"

\* C3 as stated: whenever the FST_VERSION_MAX field of the file exceeds
\* FST_VERSION, fstRead and fstMeta fail with UpdateRequired, whatever the
\* state of the hashes of the file.
C3_UpdateRequiredWhateverTheHashes ==
  (/\ readCall.op \in {"fstRead", "fstMeta"}
   /\ file.exists
   /\ 24 \in DOMAIN file.fields
   /\ file.fields[24] > FST_VERSION) =>
    readResult.error = "UpdateRequired"

\* C3: when the FST_VERSION_MAX field of the file exceeds FST_VERSION, fstRead
\* and fstMeta fail with UpdateRequired if the hash of the table header
\* matches, whatever the state of every later record, and with NonFstFile if
\* the hash of the table header does not match.
C3_VersionGateAfterTableHash ==
  (/\ readCall.op \in {"fstRead", "fstMeta"}
   /\ file.exists
   /\ 24 \in DOMAIN file.fields
   /\ file.fields[24] > FST_VERSION) =>
    readResult.error =
      IF HashFieldOK(file.fields, 0, tableHeaderSize)
      THEN "UpdateRequired" ELSE "NonFstFile"

\* fstRead has answered UpdateRequired on a file of a newer writer of which a
\* record after the table header is damaged
C3_Witness ==
  /\ readCall.op = "fstRead"
  /\ tamper.newer
  /\ tamper.damaged >= tableHeaderSize
  /\ readResult.error = "UpdateRequired"

\* C4: on a written file and a resolvable selection, with firstRow =
\* startRow - 1: fstRead fails with NegativeRow when firstRow < 0, with
\* RowOutOfRange when firstRow >= nrOfRows, with BadRange when endRow # -1 and
\* endRow <= firstRow; otherwise it succeeds, and the length it hands to
\* InitTable is min(endRow, nrOfRows) - firstRow (nrOfRows - firstRow when
\* endRow = -1), so that 1 <= length and firstRow + length <= nrOfRows.
C4_RowRangeResolution ==
  (/\ readCall.op = "fstRead"
   /\ WrittenFile
   /\ Resolvable(readCall.columnSelection)) =>
    LET firstRow == readCall.startRow - 1
        endRow   == readCall.endRow
        nrOfRows == table.nrOfRows
        last     == IF endRow = -1 \/ endRow > nrOfRows THEN nrOfRows ELSE endRow
    IN  IF firstRow < 0 THEN readResult.error = "NegativeRow"
        ELSE IF firstRow >= nrOfRows THEN readResult.error = "RowOutOfRange"
        ELSE IF endRow # -1 /\ endRow <= firstRow THEN readResult.error = "BadRange"
        ELSE /\ readResult.error = "none"
             /\ Len(readResult.initTable) = 1
             /\ readResult.initTable[1].length = last - firstRow
             /\ 1 <= readResult.initTable[1].length
             /\ firstRow + readResult.initTable[1].length <= nrOfRows

\* fstRead has succeeded from the second row on with an endRow beyond the last row
C4_Witness ==
  /\ readCall.op = "fstRead"
  /\ WrittenFile
  /\ readCall.startRow = 2
  /\ readCall.endRow > table.nrOfRows
  /\ readResult.error = "none"
  /\ readResult.initTable[1].length = table.nrOfRows - 1

\* C5 as stated: fstRead with startRow = 1 and endRow = 1 on a written file
\* fails with BadRange.
C5_FirstRowAloneIsBadRange ==
  (/\ readCall.op = "fstRead"
   /\ WrittenFile
   /\ Resolvable(readCall.columnSelection)
   /\ readCall.startRow = 1
   /\ readCall.endRow = 1) =>
    readResult.error = "BadRange"

\* C5: fstRead with startRow = 1 and endRow = 1 on a written file succeeds and
\* reads the first row alone (length 1); with startRow = 1 it fails with
\* BadRange when endRow = 0.
C5_FirstRowAloneIsRead ==
  (/\ readCall.op = "fstRead"
   /\ WrittenFile
   /\ Resolvable(readCall.columnSelection)
   /\ readCall.startRow = 1) =>
    /\ readCall.endRow = 1 =>
         /\ readResult.error = "none"
         /\ readResult.initTable = <<[nrOfSelect |-> NrOfSelect(readCall.columnSelection),
                                      length     |-> 1]>>
         /\ \A i \in 1..Len(readResult.setCalls) :
              /\ readResult.setCalls[i].firstRow = 0
              /\ readResult.setCalls[i].length = 1
    /\ readCall.endRow = 0 => readResult.error = "BadRange"

\* fstRead has read the first row alone of a table of several rows
C5_Witness ==
  /\ readCall.op = "fstRead"
  /\ WrittenFile
  /\ readCall.startRow = 1
  /\ readCall.endRow = 1
  /\ table.nrOfRows >= 2
  /\ readResult.error = "none"
  /\ Len(readResult.setCalls) >= 1

\* C6: fstRead of the rows a..b (1 <= a <= b <= nrOfRows) of a written file
\* with a resolvable selection succeeds, hands InitTable the length b - a + 1,
\* and makes one call per selected column that reads with firstRow = a - 1,
\* length = b - a + 1 and size = nrOfRows from the position of that column in
\* the file, and delivers the rows a..b of that column.
C6_InclusiveRowRange ==
  (/\ readCall.op = "fstRead"
   /\ WrittenFile
   /\ Resolvable(readCall.columnSelection)
   /\ 1 <= readCall.startRow
   /\ readCall.startRow <= readCall.endRow
   /\ readCall.endRow <= table.nrOfRows) =>
    LET a == readCall.startRow
        b == readCall.endRow
        nrOfSelect == NrOfSelect(readCall.columnSelection)
    IN  /\ readResult.error = "none"
        /\ readResult.initTable = <<[nrOfSelect |-> nrOfSelect, length |-> b - a + 1]>>
        /\ Len(readResult.setCalls) = nrOfSelect
        /\ \A i \in 1..nrOfSelect :
             LET call == readResult.setCalls[i]
             IN  /\ call.colSel = i - 1
                 /\ call.firstRow = a - 1
                 /\ call.length = b - a + 1
                 /\ call.size = table.nrOfRows
                 /\ call.pos \in DOMAIN file.blocks
                 /\ call.data = SubSeq(ColumnData(call.column, table.nrOfRows), a, b)

\* fstRead has read the last row alone of two selected columns
C6_Witness ==
  /\ readCall.op = "fstRead"
  /\ WrittenFile
  /\ readCall.startRow = table.nrOfRows
  /\ readCall.endRow = table.nrOfRows
  /\ table.nrOfRows >= 2
  /\ readResult.error = "none"
  /\ Len(readResult.setCalls) = 2
  /\ \A i \in 1..2 : Len(readResult.setCalls[i].data) = 1

\* C7: SetKeyIndex walks the key columns in key order and, for each, appends
\* the position in the selection of the first selected column that is that
\* key column; it stops at the first key column that is not selected, so
\* keyIndex lists the selection positions of the longest prefix of the key
\* whose columns are all selected. Key (0, 2) with selection (2, 0, 1) gives
\* keyIndex (1, 0).
C7_KeyIndexIsSelectedKeyPrefix ==
  kiIn.op = "called" =>
    LET keyColPos   == kiIn.keyColPos
        colIndex    == kiIn.colIndex
        Selected(i) == \E j \in 1..Len(colIndex) : colIndex[j] = keyColPos[i]
        prefix      == {m \in 0..Len(keyColPos) : \A i \in 1..m : Selected(i)}
        m           == CHOOSE x \in prefix : \A y \in prefix : y <= x
    IN  /\ Len(kiOut) = m
        /\ \A i \in 1..m :
             /\ kiOut[i] \in 0..(Len(colIndex) - 1)
             /\ colIndex[kiOut[i] + 1] = keyColPos[i]
             /\ \A j \in 1..kiOut[i] : colIndex[j] # keyColPos[i]
        /\ (keyColPos = <<0, 2>> /\ colIndex = <<2, 0, 1>>) => kiOut = <<1, 0>>

\* SetKeyIndex has run on key (0, 2) and selection (2, 0, 1)
C7_Witness ==
  /\ kiIn.op = "called"
  /\ kiIn.keyColPos = <<0, 2>>
  /\ kiIn.colIndex = <<2, 0, 1>>
  /\ kiOut = <<1, 0>>

\* C8: whenever fstRead fails it has not touched the table reader, keyIndex
\* or selectedCols: no InitTable call, no Set*Column call, keyIndex and
\* selectedCols as they were passed in.
C8_FailureLeavesOutputsUntouched ==
  (readCall.op = "fstRead" /\ readResult.error # "none") =>
    /\ readResult.initTable = <<>>
    /\ readResult.setCalls = <<>>
    /\ readResult.keyIndex = <<>>
    /\ readResult.selectedCols = <<>>

\* C9: every Set*Column call of a successful fstRead of a written file hands
\* the table reader the annotation the column had when it was written.
C9_AnnotationRoundTrip ==
  (readCall.op = "fstRead" /\ WrittenFile /\ readResult.error = "none") =>
    \A i \in 1..Len(readResult.setCalls) :
      readResult.setCalls[i].annotation =
        table.annotation[readResult.setCalls[i].column + 1]

\* C11: without a selection fstRead selects every column in the order of the
\* file (colIndex = 0, 1, ..., nrOfCols - 1); with one, it fails with
\* ColumnNotFound when a selected name is the name of no column, and
\* otherwise colIndex[s] is the smallest column number whose name is the
\* s-th selected name. After a successful call selectedCols[s] is the name
\* in the file of column colIndex[s], in the order of the selection.
C11_ColumnSelection ==
  (readCall.op = "fstRead" /\ WrittenFile) =>
    LET sel == readCall.columnSelection
    IN  /\ ~Resolvable(sel) => readResult.error = "ColumnNotFound"
        /\ readResult.error = "none" =>
             /\ Len(readResult.setCalls) = NrOfSelect(sel)
             /\ Len(readResult.selectedCols) = NrOfSelect(sel)
             /\ readResult.initTable[1].nrOfSelect = NrOfSelect(sel)
             /\ \A s \in 1..NrOfSelect(sel) :
                  LET c == readResult.setCalls[s].column
                  IN  /\ c \in 0..(table.nrOfCols - 1)
                      /\ readResult.selectedCols[s] = table.colNames[c + 1]
                      /\ IF sel.null THEN c = s - 1
                         ELSE /\ table.colNames[c + 1] = sel.names[s]
                              /\ \A d \in 0..(c - 1) : table.colNames[d + 1] # sel.names[s]
        /\ (Resolvable(sel) /\ readCall.startRow = 1 /\ readCall.endRow = -1) =>
             readResult.error = "none"

\* fstRead has selected, by a name two columns have, the first of them, and
\* after it a column of another name
C11_Witness ==
  /\ readCall.op = "fstRead"
  /\ WrittenFile
  /\ table.nrOfCols >= 2
  /\ table.colNames[1] = table.colNames[2]
  /\ ~readCall.columnSelection.null
  /\ readCall.columnSelection.names = <<table.colNames[2]>>
  /\ readResult.error = "none"
  /\ readResult.setCalls[1].column = 0

\* C12: when fstWrite, fstRead or fstMeta has returned or thrown, every
\* scratch buffer it allocated (fstWrite: metaDataBlock and chunkIndex;
\* fstRead: metaDataBlock, chunkIndex and colIndex; fstMeta: metaDataBlock)
\* has been deleted.
C12_ScratchBuffersReleased ==
  /\ pc = "done" => (metaDataBlock = NoBuffer /\ chunkIndex = NoBuffer)
  /\ readCall.op \in {"fstRead", "fstMeta"} => readResult.held = {}

\* The type code of the format and the setter of the table reader that
\* belong to a column type
CodeOfType(colType) ==
  CASE colType = CHARACTER -> 6
    [] colType = FACTOR    -> 7
    [] colType = INT_32    -> 8
    [] colType = DOUBLE_64 -> 9
    [] colType = BOOL_2    -> 10
    [] colType = INT_64    -> 11
    [] colType = BYTE      -> 12
    [] OTHER               -> -1

SetterOfType(colType) ==
  CASE colType = CHARACTER -> "SetStringColumn"
    [] colType = FACTOR    -> "SetFactorColumn"
    [] colType = INT_32    -> "SetIntegerColumn"
    [] colType = DOUBLE_64 -> "SetDoubleColumn"
    [] colType = BOOL_2    -> "SetLogicalColumn"
    [] colType = INT_64    -> "SetInt64Column"
    [] colType = BYTE      -> "SetByteColumn"
    [] OTHER               -> "none"

SevenTypes == {CHARACTER, FACTOR, INT_32, DOUBLE_64, BOOL_2, INT_64, BYTE}

\* The type code the file holds for column c
StoredCode(c) ==
  file.fields[ChunksetAt(Len(table.keyColPos)) + 76 + 2 * table.nrOfCols + 2 * c]

\* C17: fstWrite stores the type codes 6, 7, 8, 9, 10, 11, 12 for CHARACTER,
\* FACTOR, INT_32, DOUBLE_64, BOOL_2, INT_64, BYTE and fails with UnknownType
\* for a column of any other type; fstRead of all columns calls, for every
\* stored code from 6 to 12, the setter of the type of that code on the
\* payload at the position of the column, and fails with UnknownType at the
\* first column whose stored code is outside 6..12.
C17_TypeCodesAgree ==
  LET cols == 0..(table.nrOfCols - 1)
      bad  == {c \in cols : StoredCode(c) \notin 6..12}
  IN  /\ (pc = "done" /\ writeResult \notin {"EmptyTable", "NoData", "CannotOpenWrite",
                                            "WriteFailed"}) =>
           writeResult = IF \A c \in cols : table.colType[c + 1] \in SevenTypes
                         THEN "ok" ELSE "UnknownType"
      /\ (writeResult = "ok" /\ tamper = NoTamper) =>
           \A c \in cols :
             /\ StoredCode(c) = CodeOfType(table.colType[c + 1])
             /\ file.blocks[file.fields[PlaceholderAt + 120 + 8 * c]].codec = StoredCode(c)
      /\ (/\ readCall.op = "fstRead"
          /\ writeResult = "ok"
          /\ tamper.damaged = -1
          /\ ~tamper.newer
          /\ readCall.columnSelection.null
          /\ readCall.startRow = 1
          /\ readCall.endRow = -1) =>
           /\ readResult.error = IF bad = {} THEN "none" ELSE "UnknownType"
           /\ \A c \in cols :
                (\A b \in bad : c < b) =>
                  /\ c + 1 \in DOMAIN readResult.setCalls
                  /\ readResult.setCalls[c + 1].column = c
                  /\ readResult.setCalls[c + 1].pos = file.fields[PlaceholderAt + 120 + 8 * c]
                  /\ \E t \in SevenTypes :
                       /\ StoredCode(c) = CodeOfType(t)
                       /\ readResult.setCalls[c + 1].setter = SetterOfType(t)
           /\ \A i \in DOMAIN readResult.setCalls : \A b \in bad : i - 1 < b

\* fstRead has read a column of type INT_64 and then failed at a column whose
\* stored type code is one of 1..5
C17_Witness ==
  /\ readCall.op = "fstRead"
  /\ tamper.foreign
  /\ table.nrOfCols = 2
  /\ table.colType[1] = INT_64
  /\ StoredCode(1) \in 1..5
  /\ readResult.error = "UnknownType"
  /\ Len(readResult.setCalls) = 1
  /\ readResult.setCalls[1].setter = "SetInt64Column"

-----------------------------------------------------------------------------
(* Claims about fdsWriteRealVec_v9                                          *)

\* C18: for every compression from 0 to 100, fdsWriteRealVec_v9 streams the
\* vector uncompressed, without a compressor, when compression = 0; through a
\* linear mix over LZ4 at level 2 * compression with ratio 2 * compression
\* when 1 <= compression <= 50; through a composite of LZ4 at level 100 and
\* ZSTD at level 20 with ratio 2 * (compression - 50) when 51 <= compression
\* <= 100. Every level and ratio of the two compressed cases is in 2..100.
C18_CompressionStrategy ==
  (realVec # NoCall /\ compression \in 0..100) =>
    /\ compression = 0 =>
         /\ realVec.streamer = "fdsStreamUncompressed_v2"
         /\ realVec.streamCompressor = "nullptr"
         /\ realVec.compressors = <<>>
    /\ compression \in 1..50 =>
         /\ realVec.streamer = "fdsStreamcompressed_v2"
         /\ realVec.streamCompressor = "StreamLinearCompressor"
         /\ realVec.compressors = <<[algo |-> "LZ4", level |-> 2 * compression]>>
         /\ realVec.ratio = 2 * compression
    /\ compression \in 51..100 =>
         /\ realVec.streamer = "fdsStreamcompressed_v2"
         /\ realVec.streamCompressor = "StreamCompositeCompressor"
         /\ realVec.compressors =
              <<[algo |-> "LZ4", level |-> 100], [algo |-> "ZSTD", level |-> 20]>>
         /\ realVec.ratio = 2 * (compression - 50)
    /\ compression >= 1 =>
         /\ realVec.ratio \in 2..100
         /\ \A i \in 1..Len(realVec.compressors) : realVec.compressors[i].level \in 2..100

\* fdsWriteRealVec_v9 has run with compression = 50, the last setting of the
\* linear mix
C18_Witness ==
  /\ compression = 50
  /\ realVec # NoCall
  /\ realVec.streamCompressor = "StreamLinearCompressor"
  /\ realVec.ratio = 100

-----------------------------------------------------------------------------
(* Claims about the order of the checks and about stream failures           *)

\* The smallest column number whose name is name
FirstNamed(name) ==
  CHOOSE c \in 0..(table.nrOfCols - 1) :
    /\ table.colNames[c + 1] = name
    /\ \A d \in 0..(c - 1) : table.colNames[d + 1] # name

\* The columns a resolvable selection selects
SelectedColumns(columnSelection) ==
  IF columnSelection.null THEN 0..(table.nrOfCols - 1)
  ELSE {FirstNamed(columnSelection.names[i]) : i \in 1..Len(columnSelection.names)}

\* C19: fstRead reports the first check that fails, in this order: table
\* header hash (NonFstFile), version (UpdateRequired), key index hash when
\* keyLength > 0, chunkset hash, column names hash (DamagedHeader), chunk
\* index hash, data chunk hash (DamagedChunkIndex), column selection
\* (ColumnNotFound), start row (NegativeRow, else RowOutOfRange), end row
\* (BadRange), type code of a selected column (UnknownType). So a damaged
\* chunk index gives DamagedChunkIndex also when the selection or the row
\* range is not valid, and an unknown column name gives ColumnNotFound also
\* when the row range is not valid.
C19_FirstFailingCheckIsReported ==
  (readCall.op = "fstRead" /\ writeResult = "ok") =>
    LET n   == table.nrOfCols
        k   == Len(table.keyColPos)
        f   == file.fields
        d   == ChunkIndexAt(file, n, k)
        sel == readCall.columnSelection
        firstRow == readCall.startRow - 1
    IN  readResult.error =
          IF ~HashFieldOK(f, 0, 44) THEN "NonFstFile"
          ELSE IF f[24] > FST_VERSION THEN "UpdateRequired"
          ELSE IF k > 0 /\ ~HashFieldOK(f, 44, 8 + 4 * k) THEN "DamagedHeader"
          ELSE IF ~HashFieldOK(f, ChunksetAt(k), 76 + 8 * n) THEN "DamagedHeader"
          ELSE IF ~HashFieldOK(f, ColNamesAt(n, k), 24) THEN "DamagedHeader"
          ELSE IF ~HashFieldOK(f, d, 96) THEN "DamagedChunkIndex"
          ELSE IF ~HashFieldOK(f, d + 96, 24 + 8 * n) THEN "DamagedChunkIndex"
          ELSE IF ~Resolvable(sel) THEN "ColumnNotFound"
          ELSE IF firstRow < 0 THEN "NegativeRow"
          ELSE IF firstRow >= table.nrOfRows THEN "RowOutOfRange"
          ELSE IF readCall.endRow # -1 /\ readCall.endRow <= firstRow THEN "BadRange"
          ELSE IF \E c \in SelectedColumns(sel) : StoredCode(c) \notin 6..12
            THEN "UnknownType"
          ELSE "none"

\* fstRead has answered DamagedChunkIndex to a call with a name that is no
\* column and a start row of 0, on a file whose chunk index is damaged
C19_Witness ==
  /\ readCall.op = "fstRead"
  /\ writeResult = "ok"
  /\ tamper.damaged >= ChunkIndexAt(file, table.nrOfCols, Len(table.keyColPos))
  /\ ~tamper.newer
  /\ ~Resolvable(readCall.columnSelection)
  /\ readCall.startRow = 0
  /\ readResult.error = "DamagedChunkIndex"

\* An operation on the output stream of fstWrite has failed
StreamFailed == \E i \in 1..Len(myfile.ops) : myfile.ops[i].op = "fail"

\* Everything the output stream wrote is in the file
NothingTruncated ==
  \A i \in 1..Len(myfile.ops) :
    /\ file.exists
    /\ myfile.ops[i].op = "write" => myfile.ops[i].pos \in DOMAIN file.fields
    /\ myfile.ops[i].op = "block" => myfile.ops[i].pos \in DOMAIN file.blocks

\* C20 as stated: when an operation on the output stream has failed after the
\* file was opened, fstWrite still runs every remaining step, releases both
\* buffers, closes the file and then fails with WriteFailed; it never returns
\* success after a failure and never deletes or truncates the file.
C20_StreamFailureGivesWriteFailed ==
  /\ (pc = "done" /\ StreamFailed) =>
       /\ writeResult = "WriteFailed"
       /\ colNr = table.nrOfCols
       /\ metaDataBlock = NoBuffer
       /\ chunkIndex = NoBuffer
       /\ ~myfile.open
  /\ StreamFailed => writeResult # "ok"
  /\ NothingTruncated

\* C20: when an operation on the output stream has failed after the file was
\* opened, fstWrite still runs every remaining step; if one of the remaining
\* columns has an unknown type it fails there with UnknownType, otherwise it
\* reaches the end and fails with WriteFailed; in both cases it has released
\* both buffers and closed the file. It never returns success after a
\* failure and never deletes or truncates the file.
C20_StreamFailureIsSticky ==
  /\ (pc = "done" /\ StreamFailed) =>
       /\ writeResult =
            IF \A c \in 1..table.nrOfCols : table.colType[c] \in SevenTypes
            THEN "WriteFailed" ELSE "UnknownType"
       /\ writeResult = "WriteFailed" => colNr = table.nrOfCols
       /\ writeResult = "UnknownType" => table.colType[colNr + 1] \notin SevenTypes
       /\ metaDataBlock = NoBuffer
       /\ chunkIndex = NoBuffer
       /\ ~myfile.open
       /\ myfile.ops[Len(myfile.ops)].op = "close"
  /\ StreamFailed => writeResult # "ok"
  /\ NothingTruncated

\* fstWrite has failed with WriteFailed after a failure of the stream between
\* the first and the second column
C20_Witness ==
  /\ pc = "done"
  /\ writeResult = "WriteFailed"
  /\ table.nrOfCols >= 2
  /\ colNr = table.nrOfCols
  /\ \E i \in 1..Len(myfile.ops) : myfile.ops[i].op = "fail" /\ i = 5
  /\ file.exists
  /\ ~myfile.open


-----------------------------------------------------------------------------
(* Claims about fstMeta and fstRead together                                *)

\* The errors of the checks fstMeta and fstRead both make on the headers
HeaderErrors == {"NonFstFile", "UpdateRequired", "DamagedHeader"}

\* The errors only fstRead raises, after the headers were accepted
AfterHeaderErrors ==
  {"DamagedChunkIndex", "ColumnNotFound", "NegativeRow", "RowOutOfRange",
   "BadRange", "UnknownType"}

\* C21: fstMeta and fstRead validate the headers alike. After a call of
\* fstRead on a file, a call of fstMeta on the same file fails with
\* NonFstFile, UpdateRequired or DamagedHeader exactly when fstRead has failed
\* with that error; when fstMeta succeeds, fstRead has succeeded or failed
\* with DamagedChunkIndex, ColumnNotFound, NegativeRow, RowOutOfRange,
\* BadRange or UnknownType; and when both succeed on a file fstWrite has
\* written, both have read the column names where the writer put them, at
\* 44 + keyIndexHeaderSize + (76 + 8 * nrOfCols) + 24, the size of the
\* writer's metadata
C21_SharedHeaderValidation ==
  readCall.op = "fstRead" =>
    LET meta == fstMetaResult(file)
    IN  /\ \A e \in HeaderErrors : (meta.error = e) <=> (readResult.error = e)
        /\ meta.error = "none" =>
             readResult.error \in {"none"} \cup AfterHeaderErrors
        /\ (meta.error = "none" /\ readResult.error = "none"
              /\ writeResult = "ok" /\ readCall.columnSelection.null) =>
             /\ meta.colNames = table.colNames
             /\ readResult.selectedCols = table.colNames
             /\ myfile.ops[2] =
                  StreamOp("block",
                           44 + KeyIndexHeaderSize(meta.keyLength)
                              + (76 + 8 * meta.nrOfCols) + 24,
                           myfile.ops[2].size)
             /\ myfile.ops[2].pos = MetaDataSize(table.nrOfCols, Len(table.keyColPos))

\* fstRead has failed on a damaged chunk index of a file with keys whose
\* headers fstMeta accepts
C21_Witness ==
  /\ readCall.op = "fstRead"
  /\ readResult.error = "DamagedChunkIndex"
  /\ fstMetaResult(file).error = "none"
  /\ fstMetaResult(file).keyLength > 0


\* C22: for every keyLength in 0 .. nrOfCols, the primaryChunkSetLoc fstWrite
\* stores in the table header (bytes 32-39), 52 + 4 * keyLength, is the file
\* offset of the chunkset header: tableHeaderSize + keyIndexHeaderSize, where
\* keyIndexHeaderSize is 0 without keys and 8 + 4 * keyLength with keys.
C22_PrimaryChunkSetLocIsChunksetOffset ==
  writeResult = "ok" =>
    LET keyLength == Len(table.keyColPos)
    IN  /\ keyLength \in 0..table.nrOfCols
        /\ file.fields[32] = 52 + 4 * keyLength
        /\ file.fields[32] = tableHeaderSize + KeyIndexHeaderSize(keyLength)


\* C23: fstRead never fails with ColumnOutOfRange: whether the selection is
\* null or by names, every column it reads is one of the columns
\* 0 .. nrOfCols - 1 of the file, and when it succeeds it has read one column
\* for each selected one.
C23_ColumnOutOfRangeUnreachable ==
  readCall.op = "fstRead" =>
    /\ readResult.error # "ColumnOutOfRange"
    /\ \A s \in 1..Len(readResult.setCalls) :
         /\ 0 <= readResult.setCalls[s].column
         /\ readResult.setCalls[s].column < file.fields[28]
    /\ readResult.error = "none" =>
         Len(readResult.setCalls) =
           IF readCall.columnSelection.null THEN file.fields[28]
           ELSE Len(readCall.columnSelection.names)

\* fstRead without a selection has read the last of two columns
C23_Witness ==
  /\ readCall.op = "fstRead"
  /\ readCall.columnSelection.null
  /\ readResult.error = "none"
  /\ file.fields[28] = 2
  /\ readResult.setCalls[2].column = 1


\* C24: in every file a successful fstWrite has left, chunkRows[0] of the
\* chunk index equals nrOfRows of the chunkset header, the value fstMeta
\* exposes, and both equal NrOfRows of the table that was written.
C24_RowCountsAgree ==
  WrittenFile =>
    LET keyLength == Len(table.keyColPos)
        d         == ChunkIndexAt(file, table.nrOfCols, keyLength)
    IN  /\ file.fields[d + 64] = file.fields[ChunksetAt(keyLength) + 64]
        /\ file.fields[d + 64] = table.nrOfRows
        /\ (readCall.op = "fstMeta" /\ readResult.error = "none") =>
             /\ readResult.nrOfRows = file.fields[d + 64]
             /\ readResult.nrOfRows = table.nrOfRows

\* fstMeta has read the file of a table with rows and a key
C24_Witness ==
  /\ WrittenFile
  /\ readCall.op = "fstMeta"
  /\ readResult.error = "none"
  /\ readResult.nrOfRows = MaxRows
  /\ readResult.keyLength > 0


\* The number of column payloads the output stream has appended
PayloadsWritten ==
  Cardinality({i \in 4..Len(myfile.ops) : myfile.ops[i].op = "block"})

\* What fstWrite leaves when it has failed with UnknownType at column colNr,
\* the first payloads of the columns before colNr being in the file: no
\* seek-back was made, the metadata is the placeholder (the chunkset hash is
\* what the allocation held), the chunk index is the placeholder (hashes,
\* chunkPos and positionData are what the allocation held), the payloads
\* follow the chunk index in the order of the columns and nothing else was
\* appended, both buffers are released and the file is closed
AfterUnknownType(payloads) ==
  LET keyLength == Len(table.keyColPos)
      d         == PlaceholderAt
  IN  /\ \A i \in 1..Len(myfile.ops) : myfile.ops[i].op # "seek"
      /\ file.exists
      /\ \A o \in DOMAIN InitialMetaData(table, heapFill) :
           file.fields[o] = InitialMetaData(table, heapFill)[o]
      /\ file.fields[ChunksetAt(keyLength)] = RawHash(heapFill)
      /\ ~HashFieldOK(file.fields, ChunksetAt(keyLength),
                      ChunksetHeaderSize(table.nrOfCols))
      /\ d = MetaDataBytes + file.blocks[MetaDataBytes].size
      /\ file.fields[d] = RawHash(heapFill)
      /\ file.fields[d + 96] = RawHash(heapFill)
      /\ file.fields[d + 32] = heapFill
      /\ \A c \in 0..(table.nrOfCols - 1) : file.fields[d + 120 + 8 * c] = heapFill
      /\ \A c \in 0..(payloads - 1) :
           LET pos == d + ChunkIndexBytes + c * PayloadSize(table.nrOfRows)
           IN  /\ pos \in DOMAIN file.blocks
               /\ file.blocks[pos].codec = CodeOfType(table.colType[c + 1])
               /\ file.blocks[pos].data = ColumnData(c, table.nrOfRows)
      /\ Cardinality(DOMAIN file.blocks) = 1 + payloads
      /\ metaDataBlock = NoBuffer
      /\ chunkIndex = NoBuffer
      /\ ~myfile.open
      /\ myfile.ops[Len(myfile.ops)].op = "close"

C26_InputErrorsLeaveTheFileAlone ==
  [][(pc = "start" /\ writeResult' \in {"EmptyTable", "NoData"}) =>
       /\ myfile = ClosedStream
       /\ myfile' = ClosedStream
       /\ file' = file]_vars

\* fstWrite of a table with columns and no rows has failed with NoData where
\* there was a file
C26_Witness ==
  /\ pc = "done"
  /\ writeResult = "NoData"
  /\ table.nrOfCols > 0
  /\ table.nrOfRows = 0
  /\ file = OldFile
  /\ myfile = ClosedStream


-----------------------------------------------------------------------------
(* Validation before use                                                    *)

\* The hash of the table header of the file is the hash of its fields
TableHeaderOK == file.exists /\ HashFieldOK(file.fields, 0, TABLE_META_SIZE)

\* The hash of the key index of the file, when it has one, is the hash of
\* keyColPos
KeyIndexOK ==
  \/ file.fields[40] = 0
  \/ HashFieldOK(file.fields, TABLE_META_SIZE, KeyIndexHeaderSize(file.fields[40]))

\* The hash of the chunkset header of the file is the hash of its fields
ChunksetOK ==
  HashFieldOK(file.fields, ChunksetAt(file.fields[40]),
              ChunksetHeaderSize(file.fields[28]))

\* The hashes of the chunk index and of the data chunk header of the file are
\* the hashes of their fields
ChunkIndexOK ==
  LET d == ChunkIndexAt(file, file.fields[28], file.fields[40])
  IN  /\ HashFieldOK(file.fields, d, CHUNK_INDEX_SIZE)
      /\ HashFieldOK(file.fields, d + CHUNK_INDEX_SIZE,
                     DATA_INDEX_SIZE + 8 * file.fields[28])

\* C27: fstRead and fstMeta validate before they use. An outcome that depends
\* on keyLength or nrOfCols (any other than CannotOpenFile, NonFstFile and
\* UpdateRequired) is reached only with the hash of the table header right
\* and the version accepted; an outcome that depends on colTypes,
\* colAttributeTypes or colScales (a Set*Column call, UnknownType, the column
\* types of fstMeta) only with the chunkset hash right; an outcome that
\* depends on keyColPos (the key index handed back) only with the key index
\* hash right; an outcome that depends on chunkRows[0] or positionData
\* (InitTable, a Set*Column call, every error after DamagedChunkIndex) only
\* with the hashes of the chunk index and of the data chunk header right.
C27_ValidateBeforeUse ==
  readCall.op \in {"fstRead", "fstMeta"} =>
    LET error == readResult.error
    IN  /\ error = "UpdateRequired" => TableHeaderOK
        /\ error \notin {"CannotOpenFile", "NonFstFile", "UpdateRequired"} =>
             /\ TableHeaderOK
             /\ file.fields[24] <= FST_VERSION
        /\ error \notin {"CannotOpenFile", "NonFstFile", "UpdateRequired",
                         "DamagedHeader"} =>
             /\ KeyIndexOK
             /\ ChunksetOK
        /\ (readCall.op = "fstRead"
              /\ error \notin {"CannotOpenFile", "NonFstFile", "UpdateRequired",
                               "DamagedHeader", "DamagedChunkIndex"}) =>
             ChunkIndexOK
        /\ (readCall.op = "fstRead"
              /\ (readResult.setCalls # <<>> \/ readResult.keyIndex # <<>>)) =>
             /\ KeyIndexOK
             /\ ChunksetOK
             /\ ChunkIndexOK
        /\ (readCall.op = "fstRead" /\ readResult.initTable # <<>>) => ChunkIndexOK

\* fstRead has rejected a file whose table header is right and whose key
\* index was changed after its hash was computed, with no call of the table
\* reader
C27_Witness ==
  /\ readCall.op = "fstRead"
  /\ tamper.damaged > TABLE_META_SIZE
  /\ TableHeaderOK
  /\ ~KeyIndexOK
  /\ readResult.error = "DamagedHeader"
  /\ readResult.initTable = <<>>

=============================================================================
